---- MODULE Spec2Model ----
(***************************************************************************)
(* Dictation core of vibe: the shared capture buffer (AudioCaptureBuffer,  *)
(* core/src/audio_capture.rs), the plain AudioBuffer and the session state *)
(* DictationState (core/src/dictation.rs).                                 *)
(*                                                                         *)
(* Threads: "cb" is the audio driver's data callback (build_input_stream), *)
(* "ui" is a control/UI thread using the buffer handle.  A Mutex is a      *)
(* variable naming its owner; a thread blocks by having its lock step      *)
(* disabled.  Vec::extend_from_slice is modelled one element per step      *)
(* while the lock is held, so that only the lock keeps a reader from       *)
(* seeing part of a batch.                                                 *)
(***************************************************************************)
EXTENDS Integers, Sequences, FiniteSets, TLC

VARIABLES
    samples,          \* AudioCaptureBuffer.samples : Vec<i16>
    start_time,       \* AudioCaptureBuffer.start_time : Option<Instant>
    samples_lock,     \* owner of the Mutex around samples
    start_time_lock,  \* owner of the Mutex around start_time
    now,              \* Instant::now(), in whole seconds
    stream,           \* the cpal Stream of AudioCaptureStream: none/playing/paused
    cb_pc, cb_batch, cb_i, cb_pre, cb_result,   \* the data callback's append
    ui_pc, ui_op, ui_ret,                       \* a control thread's buffer call
    accepted,         \* history: the batches accepted since the last clear, in order
    attempted,        \* history: total length offered since the last clear
    rejected,         \* history: was a batch refused since the last clear
    ab_samples,       \* AudioBuffer.samples : Vec<i16>
    ab_new,           \* an AudioBuffer has been constructed
    ab_max_size,      \* AudioBuffer.max_size
    ab_result,        \* what the last AudioBuffer::append returned
    ab_ret,           \* what the last AudioBuffer::duration_seconds returned
    ab_pre,           \* history: AudioBuffer.samples as the last append began
    ab_attempted,     \* history: total length offered since the last clear
    ab_rejected,      \* history: was a batch refused since the last clear
    state,            \* the DictationState behind Arc<Mutex<..>>
    state_lock,       \* owner of the Mutex around state
    ctl_pc, ctl_req, ctl_saw, ctl_snap,   \* the control threads' requests
    out,              \* the collaborator the last controller step called
    last_reset_from,  \* history: the variant the last reset replaced
    cancelled,        \* history: a recording was cancelled and none begun since
    rs_rate,          \* build_input_stream: source_sample_rate
    rs_channels,      \* build_input_stream: source_channels
    rs_acc,           \* sample_accumulator : f32, in units of 2^-24
    rs_fed,           \* history: the number of source frames fed
    rs_in,            \* history: the downmixed value of each frame fed
    rs_out,           \* the samples pushed to resampled_samples, in order
    rs_blocks,        \* history: the frames each call of the callback was given
    lv_samples,       \* a buffer's samples as its level is asked for
    lv_window,        \* AudioBuffer::calculate_rms_level: window_size
    lv_op,            \* which buffer's calculate_rms_level was called
    lv_ret,           \* what it returned
    st_pc,            \* AudioCaptureStream::start: the step it is at
    st_device_id,     \* AudioCaptureStream::start: device_id
    st_host,          \* what the audio host offers as start is called
    st_ret,           \* what AudioCaptureStream::start returned
    tr_audio,         \* transcribe_dictation: audio_samples
    tr_engine,        \* what the Whisper context does when it is called
    tr_ret,           \* what transcribe_dictation returned, and the calls it made
    db_rows,          \* the rows of table dictation_history
    db_now,           \* chrono::Utc::now(), as <<seconds, nanoseconds>>
    db_next_id,       \* the id AUTOINCREMENT gives the next row
    db_ret,           \* what the last DictationHistory call returned
    hk_shortcut,      \* WindowsKeyboardHookManager.registered_shortcut
    hk_callback,      \* WindowsKeyboardHookManager.callback
    hk_hotkey_id,     \* WindowsKeyboardHookManager.hotkey_id
    hk_is_key_down,   \* WindowsKeyboardHookManager.is_key_down : AtomicBool
    hk_os,            \* the hotkey ids registered with the system
    hk_loops,         \* the message-loop threads spawned so far
    hk_events,        \* history: the calls of callbacks, in order
    hk_gone,          \* history: the callbacks that were unregistered
    hk_ret,           \* what the last call on the manager returned
    lk_owner,         \* the thread that holds each Mutex of a shared buffer
    lk_pc             \* the buffer method each thread is in, and how far

bufVars == <<samples, start_time, samples_lock, start_time_lock>>
cbVars  == <<cb_pc, cb_batch, cb_i, cb_pre, cb_result>>
uiVars  == <<ui_pc, ui_op, ui_ret>>
histVars == <<accepted, attempted, rejected>>
abVars == <<ab_new, ab_samples, ab_max_size, ab_result, ab_ret, ab_pre,
           ab_attempted, ab_rejected>>
ctlVars == <<ctl_pc, ctl_req, ctl_saw, ctl_snap>>
outVars == <<out, last_reset_from, cancelled>>
sessionVars == <<state, state_lock, ctlVars, outVars>>
captureVars == <<bufVars, cbVars, uiVars, histVars>>
rsVars == <<rs_rate, rs_channels, rs_acc, rs_fed, rs_in, rs_out, rs_blocks>>
lvVars == <<lv_samples, lv_window, lv_op, lv_ret>>
stVars == <<st_pc, st_device_id, st_host, st_ret>>
trVars == <<tr_audio, tr_engine, tr_ret>>
dbVars == <<db_rows, db_now, db_next_id, db_ret>>
hkVars == <<hk_shortcut, hk_callback, hk_hotkey_id, hk_is_key_down, hk_os,
           hk_loops, hk_events, hk_gone, hk_ret>>
lkVars == <<lk_owner, lk_pc>>
extVars == <<dbVars, hkVars, lkVars>>
appVars == <<captureVars, now, stream, abVars, sessionVars, rsVars, lvVars,
            stVars, trVars>>
vars == <<appVars, extVars>>

----------------------------------------------------------------------------
(* Bounds of the model.  The capacity is the program's 4,800,000 scaled    *)
(* down; every comparison made with it is the program's.                   *)
RING_BUFFER_CAPACITY == 3
MaxBatch == 2
MaxTime == 2
MaxSize == 3
MaxFrames == 6
MaxWindow == 3
Sample == {100, 200}

\* DICTATION_SAMPLE_RATE
DICTATION_SAMPLE_RATE == 16000

\* MAX_RECORDING_DURATION_SECS (300 in the source), in ticks of the clock
MAX_RECORDING_DURATION_SECS == 1

\* RMS_WINDOW_SIZE (4000 in the source), scaled down
RMS_WINDOW_SIZE == 2

\* i16::MAX
I16_MAX == 32767

\* the program's own values of the constants the model scales down:
\* RING_BUFFER_CAPACITY and MAX_RECORDING_DURATION_SECS of audio_capture.rs
SOURCE_RING_BUFFER_CAPACITY == 4800000
SOURCE_MAX_RECORDING_DURATION_SECS == 300

\* MAX_AUDIO_BUFFER_SIZE of dictation.rs
MAX_AUDIO_BUFFER_SIZE == 4800000

None == "None"
NoBatch == <<>>
\* Option<Instant>
NoInstant == <<>>
Some(t) == <<t>>

Batch == UNION {[1..n -> Sample] : n \in 1..MaxBatch}
\* the batches a session is fed: one of each length, its samples alternating
SessionBatch ==
    {b \in Batch : \A i \in 1..Len(b) : b[i] = IF i % 2 = 1 THEN 100 ELSE 200}
Callers == {"c1", "c2"}
Other(c) == IF c = "c1" THEN "c2" ELSE "c1"
\* Option<String>: absent, or a device index
Devices == {None, "0"}
Requests == {"start", "stop", "cancel"}
\* the control thread's periodic look at the recording's duration
Polls == {"poll"}
\* what AudioCaptureStream::start and transcribe_dictation fail with
StartErrors == {"No default input device"}
TranscribeErrors == {"Failed to run Whisper transcription"}
Messages == StartErrors \cup TranscribeErrors
Texts == {"", "hello"}
Tags == {"Idle", "Recording", "Processing", "Error"}

Min(a, b) == IF a < b THEN a ELSE b

----------------------------------------------------------------------------
(* AudioCaptureBuffer, as pure steps on the vector.                        *)

\* the test with the incoming batch left out of the sum
WouldExceedIgnoringNew(cur, new) == Len(cur) > RING_BUFFER_CAPACITY

\* the test with >= for >
WouldExceedAtCapacity(cur, new) == Len(cur) + Len(new) >= RING_BUFFER_CAPACITY

\* the test letting one sample more than the capacity in
WouldExceedByOne(cur, new) == Len(cur) + Len(new) > RING_BUFFER_CAPACITY + 1

\* append_samples, line 54: the capacity test made under the lock
WouldExceed(cur, new) == Len(cur) + Len(new) > RING_BUFFER_CAPACITY

\* a samples lock that excludes nobody
SamplesLockIgnored == TRUE

\* self.samples.lock(): the lock can be taken when nobody holds it
SamplesLockFree == samples_lock = None

\* a copy that misses the newest sample
get_samples_but_last(s) == SubSeq(s, 1, Len(s) - 1)

\* get_samples: samples.clone()
get_samples(s) == s
\* len
len(s) == Len(s)
\* is_empty
is_empty(s) == Len(s) = 0
\* a duration taken from the clock: the seconds since the buffer was started
duration_seconds_by_clock(s) ==
    <<(IF start_time # <<>> THEN now - start_time[1] ELSE 0)
          * DICTATION_SAMPLE_RATE, DICTATION_SAMPLE_RATE>>

\* duration_seconds: samples.len() as f64 / DICTATION_SAMPLE_RATE as f64,
\* kept as the exact fraction <<numerator, denominator>>
duration_seconds(s) == <<Len(s), DICTATION_SAMPLE_RATE>>

\* the fraction d is n seconds
IsSeconds(d, n) == d[1] = n * d[2]

\* one second of audio: DICTATION_SAMPLE_RATE samples of the value 100
OneSecond == [i \in 1..DICTATION_SAMPLE_RATE |-> 100]

ReadOps == {"get_samples", "len", "is_empty", "duration_seconds"}
LevelOps == {"calculate_rms_level"}
ResetOps == {"start_recording", "clear"}

ReadValue(op, s) ==
    CASE op = "get_samples" -> get_samples(s)
      [] op = "len" -> len(s)
      [] op = "is_empty" -> is_empty(s)
      [] op = "duration_seconds" -> duration_seconds(s)

----------------------------------------------------------------------------
(* DictationState: the variants and the functions that build them.         *)

\* the buffer's limit test with > for >=
buffer_exceeded_strictly(st) ==
    (IF st # NoInstant THEN now - st[1] ELSE 0) > MAX_RECORDING_DURATION_SECS

\* AudioCaptureBuffer::recording_duration: start.elapsed(), or zero when
\* the buffer has no start time
buffer_recording_duration(st) == IF st # NoInstant THEN now - st[1] ELSE 0

\* AudioCaptureBuffer::has_exceeded_max_duration
buffer_has_exceeded_max_duration(st) ==
    buffer_recording_duration(st) >= MAX_RECORDING_DURATION_SECS

\* idle() building the Error variant
idle_as_error == [tag |-> "Error", message |-> "reset"]

\* DictationState::idle
idle == [tag |-> "Idle"]

\* DictationState::start_recording; audio_buffer is a new, empty Arc<Vec<i16>>
start_recording(microphone_device_id) ==
    [tag |-> "Recording", start_time |-> now, audio_buffer |-> <<>>,
     microphone_device_id |-> microphone_device_id]

\* DictationState::start_processing
start_processing(audio_data, duration) ==
    [tag |-> "Processing", audio_data |-> audio_data,
     duration_seconds |-> duration]

\* error() losing its message
error_without_message(message) == [tag |-> "Error", message |-> ""]

\* DictationState::error
error(message) == [tag |-> "Error", message |-> message]

\* the match without Processing in mind
can_start_unless_recording(s) == s.tag # "Recording"

\* the match that lets every variant through
can_start_always(s) == TRUE

\* matches!(self, Idle | Error { .. })
can_start_recording(s) == s.tag \in {"Idle", "Error"}

\* the match taking Error for Recording
is_recording_or_error(s) == s.tag \in {"Recording", "Error"}

\* matches!(self, Recording { .. })
is_recording(s) == s.tag = "Recording"

\* the match taking Recording for Processing as well
is_processing_or_recording(s) == s.tag \in {"Processing", "Recording"}

\* matches!(self, Processing { .. })
is_processing(s) == s.tag = "Processing"

\* DictationState::recording_duration: Some(start_time.elapsed()) in
\* Recording, None otherwise
recording_duration(s) ==
    IF s.tag = "Recording" THEN Some(now - s.start_time) ELSE NoInstant

\* the state's limit test with > for >=
has_exceeded_strictly(s) ==
    IF recording_duration(s) # NoInstant
    THEN recording_duration(s)[1] > MAX_RECORDING_DURATION_SECS
    ELSE FALSE

\* DictationState::has_exceeded_max_duration
has_exceeded_max_duration(s) ==
    IF recording_duration(s) # NoInstant
    THEN recording_duration(s)[1] >= MAX_RECORDING_DURATION_SECS
    ELSE FALSE

\* enum DictationState: the fields each variant carries
VariantFields(tag) ==
    CASE tag = "Idle" -> {"tag"}
      [] tag = "Recording" ->
            {"tag", "start_time", "audio_buffer", "microphone_device_id"}
      [] tag = "Processing" -> {"tag", "audio_data", "duration_seconds"}
      [] tag = "Error" -> {"tag", "message"}

\* a state lock that excludes nobody
StateLockIgnored == TRUE

\* state.lock(): the lock can be taken when nobody holds it
StateLockFree == state_lock = None

----------------------------------------------------------------------------
\* The part of the state every specification starts from.
InitCommon ==
    /\ samples = <<>>
    /\ samples_lock = None
    /\ start_time_lock = None
    /\ now = 0
    /\ cb_pc = "idle" /\ cb_batch = NoBatch /\ cb_i = 0 /\ cb_pre = <<>>
    /\ cb_result = None
    /\ ui_pc = "idle" /\ ui_op = None /\ ui_ret = None
    /\ accepted = <<>> /\ attempted = 0 /\ rejected = FALSE
    /\ ab_samples = <<>>
    /\ ab_new = FALSE
    /\ ab_max_size = 0
    /\ ab_result = None
    /\ ab_ret = <<>>
    /\ ab_pre = <<>>
    /\ ab_attempted = 0
    /\ ab_rejected = FALSE
    /\ state_lock = None
    /\ ctl_pc = [c \in Callers |-> "idle"]
    /\ ctl_req = [c \in Callers |-> None]
    /\ ctl_saw = [c \in Callers |-> FALSE]
    /\ ctl_snap = [c \in Callers |-> <<>>]
    /\ out = None
    /\ last_reset_from = None
    /\ cancelled = FALSE

\* The history database is empty and nobody calls it.
DbAtRest ==
    /\ db_rows = {}
    /\ db_now = <<0, 0>>
    /\ db_next_id = 1
    /\ db_ret = [op |-> None, value |-> 0]

\* WindowsKeyboardHookManager::new(), and no thread spawned
HkAtRest ==
    /\ hk_shortcut = <<>>
    /\ hk_callback = <<>>
    /\ hk_hotkey_id = <<>>
    /\ hk_is_key_down = FALSE
    /\ hk_os = {}
    /\ hk_loops = <<>>
    /\ hk_events = <<>>
    /\ hk_gone = {}
    /\ hk_ret = [op |-> None, result |-> None]

\* the threads that share one AudioCaptureBuffer: the callback's and two
\* control threads
Threads == {"cb", "ui1", "ui2"}
Locks == {"samples", "start_time"}

\* No thread is in a method of the buffer.
LkAtRest ==
    /\ lk_owner = [l \in Locks |-> None]
    /\ lk_pc = [t \in Threads |-> [op |-> None, held |-> 0]]

\* transcribe_dictation has not been called
NotCalled == [result |-> None, text |-> <<>>, message |-> "", calls |-> <<>>]

\* No transcription is asked for.
TrAtRest ==
    /\ tr_audio = <<>>
    /\ tr_engine = None
    /\ tr_ret = NotCalled

\* AudioCaptureStream::start is not being called.
StAtRest ==
    /\ st_pc = "idle"
    /\ st_device_id = None
    /\ st_host = None
    /\ st_ret = None
    /\ TrAtRest

\* Nobody has asked for a level.
LvAtRest ==
    /\ lv_samples = <<>>
    /\ lv_window = 0
    /\ lv_op = None
    /\ lv_ret = None

\* No stream has been built: the decimator of build_input_stream is idle.
RsAtRest ==
    /\ rs_rate = DICTATION_SAMPLE_RATE
    /\ rs_channels = 1
    /\ rs_acc = 0
    /\ rs_fed = 0
    /\ rs_in = <<>>
    /\ rs_out = <<>>
    /\ rs_blocks = <<>>

\* The application as it starts: DictationState::default(), no stream, and
\* an AudioCaptureBuffer::new() that nothing feeds yet.
Init ==
    /\ InitCommon
    /\ DbAtRest
    /\ HkAtRest
    /\ LkAtRest
    /\ RsAtRest
    /\ LvAtRest
    /\ StAtRest
    /\ state = idle
    /\ stream = "none"
    /\ start_time = NoInstant

\* A capture in progress: AudioCaptureStream::start(None) has returned.
InitBuffers ==
    /\ InitCommon
    /\ DbAtRest
    /\ HkAtRest
    /\ LkAtRest
    /\ RsAtRest
    /\ LvAtRest
    /\ StAtRest
    /\ state = start_recording(None)
    /\ stream = "playing"
    /\ start_time = Some(0)

\* The clock advances.
Tick ==
    /\ now < MaxTime
    /\ now' = now + 1
    /\ UNCHANGED <<captureVars, stream, abVars, sessionVars>>
    /\ UNCHANGED <<rsVars, lvVars, stVars, trVars, extVars>>

----------------------------------------------------------------------------
(* The data callback of build_input_stream.  The driver calls it while the *)
(* stream plays, and on some hosts from the moment the stream is built; it *)
(* has a non-empty batch of resampled samples and calls                    *)
(* buffer.append_samples, which takes the samples lock first.              *)
CbBegin(b) ==
    /\ cb_pc = "idle"
    /\ stream \in {"built", "playing"}
    /\ cb_pc' = "call"
    /\ cb_batch' = b
    /\ cb_i' = 0
    /\ cb_result' = None
    /\ UNCHANGED <<bufVars, cb_pre, uiVars, histVars, now, stream, abVars,
                   sessionVars>>
    /\ UNCHANGED <<rsVars, lvVars, stVars, trVars, extVars>>

\* let mut samples = self.samples.lock().unwrap();
CbLock ==
    /\ cb_pc = "call"
    /\ SamplesLockFree
    /\ samples_lock' = "cb"
    /\ cb_pc' = "check"
    /\ cb_pre' = samples
    /\ UNCHANGED <<samples, start_time, start_time_lock, cb_batch, cb_i,
                   cb_result, uiVars, histVars, now, stream, abVars,
                   sessionVars>>
    /\ UNCHANGED <<rsVars, lvVars, stVars, trVars, extVars>>

\* the same test with the Err unwrapped in the callback: the audio thread
\* dies holding the lock
CbCheckPanics ==
    /\ cb_pc = "check"
    /\ attempted' = Min(attempted + Len(cb_batch), RING_BUFFER_CAPACITY + 1)
    /\ IF WouldExceed(samples, cb_batch)
       THEN /\ cb_pc' = "panicked"
            /\ cb_result' = "Err"
            /\ rejected' = TRUE
            /\ UNCHANGED <<samples_lock, cb_batch, cb_pre>>
       ELSE /\ cb_pc' = "extend"
            /\ UNCHANGED <<cb_result, samples_lock, rejected, cb_batch, cb_pre>>
    /\ UNCHANGED <<samples, start_time, start_time_lock, cb_i, uiVars,
                   accepted, now, stream, abVars, sessionVars>>
    /\ UNCHANGED <<rsVars, lvVars, stVars, trVars, extVars>>

\* the same test with the failure logged by append_samples itself, the
\* guard still alive when the callback has its Err
CbCheckLogsLocked ==
    /\ cb_pc = "check"
    /\ attempted' = Min(attempted + Len(cb_batch), RING_BUFFER_CAPACITY + 1)
    /\ IF WouldExceed(samples, cb_batch)
       THEN /\ cb_pc' = "idle"
            /\ cb_result' = "Err"
            /\ rejected' = TRUE
            /\ cb_batch' = NoBatch
            /\ cb_pre' = <<>>
            /\ UNCHANGED samples_lock
       ELSE /\ cb_pc' = "extend"
            /\ UNCHANGED <<cb_result, samples_lock, rejected, cb_batch, cb_pre>>
    /\ UNCHANGED <<samples, start_time, start_time_lock, cb_i, uiVars,
                   accepted, now, stream, abVars, sessionVars>>
    /\ UNCHANGED <<rsVars, lvVars, stVars, trVars, extVars>>

\* if samples.len() + new_samples.len() > RING_BUFFER_CAPACITY { bail!(..) }
CbCheck ==
    /\ cb_pc = "check"
    /\ attempted' = Min(attempted + Len(cb_batch), RING_BUFFER_CAPACITY + 1)
    /\ IF WouldExceed(samples, cb_batch)
       THEN /\ cb_pc' = "idle"
            /\ cb_result' = "Err"
            /\ samples_lock' = None
            /\ rejected' = TRUE
            /\ cb_batch' = NoBatch
            /\ cb_pre' = <<>>
       ELSE /\ cb_pc' = "extend"
            /\ UNCHANGED <<cb_result, samples_lock, rejected, cb_batch, cb_pre>>
    /\ UNCHANGED <<samples, start_time, start_time_lock, cb_i, uiVars,
                   accepted, now, stream, abVars, sessionVars>>
    /\ UNCHANGED <<rsVars, lvVars, stVars, trVars, extVars>>

\* the extension writing each element in front of the vector
CbExtendFront ==
    /\ cb_pc = "extend"
    /\ cb_i < Len(cb_batch)
    /\ samples' = <<cb_batch[cb_i + 1]>> \o samples
    /\ cb_i' = cb_i + 1
    /\ UNCHANGED <<start_time, samples_lock, start_time_lock, cb_pc,
                   cb_batch, cb_pre, cb_result, uiVars, histVars, now, stream,
                   abVars, sessionVars>>
    /\ UNCHANGED <<rsVars, lvVars, stVars, trVars, extVars>>

\* the extension reaching a vector that get_samples handed out uncopied
CbExtendAliased ==
    /\ cb_pc = "extend"
    /\ cb_i < Len(cb_batch)
    /\ samples' = Append(samples, cb_batch[cb_i + 1])
    /\ ctl_snap' = [c \in Callers |->
                      IF ctl_pc[c] = "stopped"
                      THEN Append(ctl_snap[c], cb_batch[cb_i + 1])
                      ELSE ctl_snap[c]]
    /\ cb_i' = cb_i + 1
    /\ UNCHANGED <<start_time, samples_lock, start_time_lock, cb_pc,
                   cb_batch, cb_pre, cb_result, uiVars, histVars, now, stream,
                   abVars, state, state_lock, ctl_pc, ctl_req, ctl_saw,
                   outVars>>
    /\ UNCHANGED <<rsVars, lvVars, stVars, trVars, extVars>>

\* samples.extend_from_slice(new_samples), one element at a time
CbExtend ==
    /\ cb_pc = "extend"
    /\ cb_i < Len(cb_batch)
    /\ samples' = Append(samples, cb_batch[cb_i + 1])
    /\ cb_i' = cb_i + 1
    /\ UNCHANGED <<start_time, samples_lock, start_time_lock, cb_pc,
                   cb_batch, cb_pre, cb_result, uiVars, histVars, now, stream,
                   abVars, sessionVars>>
    /\ UNCHANGED <<rsVars, lvVars, stVars, trVars, extVars>>

\* Ok(()): the guard is dropped as append_samples returns
CbReturn ==
    /\ cb_pc = "extend"
    /\ cb_i = Len(cb_batch)
    /\ samples_lock' = None
    /\ cb_pc' = "idle"
    /\ cb_result' = "Ok"
    /\ accepted' = accepted \o cb_batch
    /\ cb_batch' = NoBatch
    /\ cb_i' = 0
    /\ cb_pre' = <<>>
    /\ UNCHANGED <<samples, start_time, start_time_lock, uiVars, attempted,
                   rejected, now, stream, abVars, sessionVars>>
    /\ UNCHANGED <<rsVars, lvVars, stVars, trVars, extVars>>

----------------------------------------------------------------------------
(* A control thread calls one of the buffer's methods through              *)
(* AudioCaptureStream::buffer(); each takes the samples lock first.        *)
UiLock(op) ==
    /\ ui_pc = "idle"
    /\ SamplesLockFree
    /\ samples_lock' = "ui"
    /\ ui_pc' = "locked"
    /\ ui_op' = op
    /\ ui_ret' = None
    /\ UNCHANGED <<samples, start_time, start_time_lock, cbVars, histVars,
                   now, stream, abVars, sessionVars>>
    /\ UNCHANGED <<rsVars, lvVars, stVars, trVars, extVars>>

\* get_samples / len / is_empty / duration_seconds: read under the lock
UiRead ==
    /\ ui_pc = "locked"
    /\ ui_op \in ReadOps
    /\ ui_ret' = ReadValue(ui_op, samples)
    /\ ui_pc' = "got"
    /\ UNCHANGED <<bufVars, cbVars, ui_op, histVars, now, stream, abVars,
                   sessionVars>>
    /\ UNCHANGED <<rsVars, lvVars, stVars, trVars, extVars>>

\* the guard is dropped as the method returns
UiReturn ==
    /\ ui_pc \in {"got", "measured"}
    /\ samples_lock' = None
    /\ ui_pc' = "idle"
    /\ ui_op' = None
    /\ ui_ret' = None
    /\ UNCHANGED <<samples, start_time, start_time_lock, cbVars, histVars,
                   now, stream, abVars, sessionVars>>
    /\ UNCHANGED <<rsVars, lvVars, stVars, trVars, extVars>>

\* start_recording / clear leaving the samples where they are
UiClearKeeping ==
    /\ ui_pc = "locked"
    /\ ui_op \in ResetOps
    /\ accepted' = <<>>
    /\ attempted' = 0
    /\ rejected' = FALSE
    /\ ui_pc' = "cleared"
    /\ UNCHANGED <<samples, start_time, samples_lock, start_time_lock, cbVars,
                   ui_op, ui_ret, now, stream, abVars, sessionVars>>
    /\ UNCHANGED <<rsVars, lvVars, stVars, trVars, extVars>>

\* start_recording / clear: samples.clear() under the samples lock
UiClear ==
    /\ ui_pc = "locked"
    /\ ui_op \in ResetOps
    /\ samples' = <<>>
    /\ accepted' = <<>>
    /\ attempted' = 0
    /\ rejected' = FALSE
    /\ ui_pc' = "cleared"
    /\ UNCHANGED <<start_time, samples_lock, start_time_lock, cbVars,
                   ui_op, ui_ret, now, stream, abVars, sessionVars>>
    /\ UNCHANGED <<rsVars, lvVars, stVars, trVars, extVars>>

\* ... then self.start_time.lock()
UiLockStartTime ==
    /\ ui_pc = "cleared"
    /\ start_time_lock = None
    /\ start_time_lock' = "ui"
    /\ ui_pc' = "st_locked"
    /\ UNCHANGED <<samples, start_time, samples_lock, cbVars, ui_op,
                   ui_ret, histVars, now, stream, abVars, sessionVars>>
    /\ UNCHANGED <<rsVars, lvVars, stVars, trVars, extVars>>

\* a clear that leaves the start time as it was
UiSetStartTimeKept ==
    /\ ui_pc = "st_locked"
    /\ start_time' = IF ui_op = "start_recording" THEN Some(now) ELSE start_time
    /\ samples_lock' = None
    /\ start_time_lock' = None
    /\ ui_pc' = "idle"
    /\ ui_op' = None
    /\ UNCHANGED <<samples, cbVars, ui_ret, histVars, now, stream, abVars,
                   sessionVars>>
    /\ UNCHANGED <<rsVars, lvVars, stVars, trVars, extVars>>

\* *start_time = Some(Instant::now()) or None; both guards are dropped
UiSetStartTime ==
    /\ ui_pc = "st_locked"
    /\ start_time' = IF ui_op = "start_recording" THEN Some(now) ELSE NoInstant
    /\ samples_lock' = None
    /\ start_time_lock' = None
    /\ ui_pc' = "idle"
    /\ ui_op' = None
    /\ UNCHANGED <<samples, cbVars, ui_ret, histVars, now, stream, abVars,
                   sessionVars>>
    /\ UNCHANGED <<rsVars, lvVars, stVars, trVars, extVars>>

(* has_exceeded_max_duration: recording_duration takes the start_time     *)
(* lock, reads the start time and the clock, and drops the lock.           *)
UiPoll ==
    /\ ui_pc = "idle"
    /\ start_time_lock = None
    /\ ui_pc' = "polled"
    /\ ui_op' = "has_exceeded_max_duration"
    /\ ui_ret' = buffer_has_exceeded_max_duration(start_time)
    /\ UNCHANGED <<bufVars, cbVars, histVars, now, stream, abVars,
                   sessionVars>>
    /\ UNCHANGED <<rsVars, lvVars, stVars, trVars, extVars>>

\* the caller has its answer
UiPollReturn ==
    /\ ui_pc = "polled"
    /\ ui_pc' = "idle"
    /\ ui_op' = None
    /\ ui_ret' = None
    /\ UNCHANGED <<bufVars, cbVars, histVars, now, stream, abVars,
                   sessionVars>>
    /\ UNCHANGED <<rsVars, lvVars, stVars, trVars, extVars>>

----------------------------------------------------------------------------
(* AudioBuffer (dictation.rs): owned by one thread (&mut self), so each    *)
(* method is one step.  It shares nothing with the capture buffer: a run   *)
(* that constructs one leaves the capture side as it was.                  *)

CaptureAtRest ==
    /\ samples = <<>> /\ accepted = <<>> /\ attempted = 0
    /\ cb_pc = "idle" /\ cb_result = None
    /\ ui_pc = "idle"

\* append, line 113: the size test
WouldExceedMax(cur, new, max) == Len(cur) + Len(new) > max

\* AudioBuffer::new(max_size)
AbNew(max_size) ==
    /\ ~ab_new
    /\ CaptureAtRest
    /\ ab_new' = TRUE
    /\ ab_max_size' = max_size
    /\ ab_samples' = <<>>
    /\ UNCHANGED <<ab_result, ab_ret, ab_pre, ab_attempted, ab_rejected,
                   captureVars, now, stream, sessionVars>>
    /\ UNCHANGED <<rsVars, lvVars, stVars, trVars, extVars>>

\* append keeping the part of a refused batch that still fits
appendTruncating(cur, new, max) ==
    IF WouldExceedMax(cur, new, max)
    THEN [samples |-> cur \o SubSeq(new, 1, max - Len(cur)), result |-> "Err"]
    ELSE [samples |-> cur \o new, result |-> "Ok"]

\* append refusing a batch that does not fit only the first time
appendOnceRefused(cur, new, max) ==
    IF ~ab_rejected /\ WouldExceedMax(cur, new, max)
    THEN [samples |-> cur, result |-> "Err"]
    ELSE [samples |-> cur \o new, result |-> "Ok"]

\* AudioBuffer::append: the vector afterwards and what is returned
append(cur, new, max) ==
    IF WouldExceedMax(cur, new, max)
    THEN [samples |-> cur, result |-> "Err"]
    ELSE [samples |-> cur \o new, result |-> "Ok"]

\* buffer.append(&b)
AbAppend(b) ==
    /\ ab_new
    /\ ab_pre' = ab_samples
    /\ ab_attempted' = Min(ab_attempted + Len(b), ab_max_size + 1)
    /\ ab_samples' = append(ab_samples, b, ab_max_size).samples
    /\ ab_result' = append(ab_samples, b, ab_max_size).result
    /\ ab_rejected' = (ab_rejected \/ append(ab_samples, b, ab_max_size).result = "Err")
    /\ UNCHANGED <<ab_new, ab_max_size, ab_ret, captureVars, now, stream,
                   sessionVars>>
    /\ UNCHANGED <<rsVars, lvVars, stVars, trVars, extVars>>

\* AudioBuffer::clear
AbClear ==
    /\ ab_new
    /\ ab_samples' = <<>>
    /\ ab_pre' = <<>>
    /\ ab_result' = None
    /\ ab_attempted' = 0
    /\ ab_rejected' = FALSE
    /\ UNCHANGED <<ab_new, ab_max_size, ab_ret, captureVars, now, stream,
                   sessionVars>>
    /\ UNCHANGED <<rsVars, lvVars, stVars, trVars, extVars>>

\* AudioBuffer::duration_seconds: self.samples.len() as f64 / 16000.0
AbDuration ==
    /\ ab_new
    /\ ab_ret' = duration_seconds(ab_samples)
    /\ UNCHANGED <<ab_new, ab_samples, ab_max_size, ab_result, ab_pre,
                   ab_attempted, ab_rejected, captureVars, now, stream,
                   sessionVars>>
    /\ UNCHANGED <<rsVars, lvVars, stVars, trVars, extVars>>

----------------------------------------------------------------------------
(* The session controller.  Control threads share the DictationState behind *)
(* one Mutex (Arc<Mutex<DictationState>>); a hotkey event becomes a request *)
(* that takes the lock, looks at the state and replaces it.  The requests   *)
(* are HotkeyDown (start), HotkeyUp (stop) and CancelPressed (cancel).      *)

Release(c) ==
    /\ state_lock' = None
    /\ ctl_pc' = [ctl_pc EXCEPT ![c] = "idle"]
    /\ ctl_req' = [ctl_req EXCEPT ![c] = None]
    /\ ctl_saw' = [ctl_saw EXCEPT ![c] = FALSE]
    /\ ctl_snap' = [ctl_snap EXCEPT ![c] = <<>>]

(* The capture stream is dropped and its buffer with it.  Dropping a cpal  *)
(* Stream returns once its callback has returned.  No buffer is written    *)
(* as the buffer AudioCaptureBuffer::new() gives.                          *)
DropStream ==
    /\ cb_pc = "idle"
    /\ stream' = "none"
    /\ samples' = <<>>
    /\ start_time' = NoInstant
    /\ accepted' = <<>>
    /\ attempted' = 0
    /\ rejected' = FALSE
    /\ cb_result' = None
    /\ UNCHANGED <<samples_lock, start_time_lock, cb_pc, cb_batch, cb_i,
                   cb_pre, uiVars>>

\* a key event arrives on a control thread
CtlRequest(c, r) ==
    /\ ctl_pc[c] = "idle"
    /\ ctl_pc' = [ctl_pc EXCEPT ![c] = "wait"]
    /\ ctl_req' = [ctl_req EXCEPT ![c] = r]
    /\ ctl_saw' = [ctl_saw EXCEPT ![c] = (r = "start" /\ state.tag = "Idle")]
    /\ UNCHANGED <<captureVars, now, stream, abVars, state, state_lock,
                   ctl_snap, outVars>>
    /\ UNCHANGED <<rsVars, lvVars, stVars, trVars, extVars>>

\* let mut s = state.lock().unwrap();
CtlLock(c) ==
    /\ ctl_pc[c] = "wait"
    /\ StateLockFree
    /\ state_lock' = c
    /\ ctl_pc' = [ctl_pc EXCEPT ![c] = "locked"]
    /\ UNCHANGED <<captureVars, now, stream, abVars, state, ctl_req,
                   ctl_saw, ctl_snap, outVars>>
    /\ UNCHANGED <<rsVars, lvVars, stVars, trVars, extVars>>

\* start: the caller checks can_start_recording() first
CtlStartCheck(c) ==
    /\ ctl_pc[c] = "locked"
    /\ ctl_req[c] = "start"
    /\ IF can_start_recording(state)
       THEN /\ ctl_pc' = [ctl_pc EXCEPT ![c] = "starting"]
            /\ UNCHANGED <<state_lock, ctl_req, ctl_saw, ctl_snap>>
       ELSE Release(c)
    /\ UNCHANGED <<captureVars, now, stream, abVars, state, outVars>>
    /\ UNCHANGED <<rsVars, lvVars, stVars, trVars, extVars>>

(* AudioCaptureStream::start(device_id): on success a new buffer, started *)
(* (its start time is read from the clock here), and a playing stream; on  *)
(* failure no buffer, and the state becomes Error.                         *)
CtlStart(c, device_id, ok, msg) ==
    /\ ctl_pc[c] = "starting"
    /\ cb_pc = "idle"
    /\ IF ok
       THEN /\ samples' = <<>>
            /\ start_time' = Some(now)
            /\ accepted' = <<>>
            /\ attempted' = 0
            /\ rejected' = FALSE
            /\ stream' = "playing"
            /\ ctl_pc' = [ctl_pc EXCEPT ![c] = "started"]
            /\ UNCHANGED <<state, state_lock, ctl_req, ctl_saw, ctl_snap>>
       ELSE /\ state' = error(msg)
            /\ Release(c)
            /\ UNCHANGED <<samples, start_time, histVars, stream>>
    /\ out' = None
    /\ cancelled' = FALSE
    /\ last_reset_from' = None
    /\ UNCHANGED <<samples_lock, start_time_lock, cbVars, uiVars, now, abVars>>
    /\ UNCHANGED <<rsVars, lvVars, stVars, trVars, extVars>>

(* The stream runs: the state becomes DictationState::start_recording,    *)
(* which reads the clock again for the state's own start_time.             *)
CtlStartDone(c, device_id) ==
    /\ ctl_pc[c] = "started"
    /\ state' = start_recording(device_id)
    /\ Release(c)
    /\ UNCHANGED <<captureVars, now, stream, abVars, outVars>>
    /\ UNCHANGED <<rsVars, lvVars, stVars, trVars, extVars>>

\* stop: AudioCaptureStream::stop begins with self.stream.pause()
CtlStopPause(c) ==
    /\ ctl_pc[c] = "locked"
    /\ ctl_req[c] = "stop"
    /\ IF is_recording(state)
       THEN /\ stream' = "paused"
            /\ ctl_pc' = [ctl_pc EXCEPT ![c] = "stopping"]
            /\ UNCHANGED <<state_lock, ctl_req, ctl_saw, ctl_snap>>
       ELSE /\ Release(c)
            /\ UNCHANGED stream
    /\ UNCHANGED <<captureVars, now, abVars, state, outVars>>
    /\ UNCHANGED <<rsVars, lvVars, stVars, trVars, extVars>>

(* poll: the control thread asks the state whether the limit is passed   *)
(* and, when it is, stops the recording as a stop request does.            *)
CtlPoll(c) ==
    /\ ctl_pc[c] = "locked"
    /\ ctl_req[c] = "poll"
    /\ IF has_exceeded_max_duration(state)
       THEN /\ stream' = "paused"
            /\ ctl_pc' = [ctl_pc EXCEPT ![c] = "stopping"]
            /\ UNCHANGED <<state_lock, ctl_req, ctl_saw, ctl_snap>>
       ELSE /\ Release(c)
            /\ UNCHANGED stream
    /\ UNCHANGED <<captureVars, now, abVars, state, outVars>>
    /\ UNCHANGED <<rsVars, lvVars, stVars, trVars, extVars>>

\* ... goes on with self.buffer.get_samples(), which takes the samples lock
CtlStopSnapshot(c) ==
    /\ ctl_pc[c] = "stopping"
    /\ SamplesLockFree
    /\ ctl_snap' = [ctl_snap EXCEPT ![c] = get_samples(samples)]
    /\ ctl_pc' = [ctl_pc EXCEPT ![c] = "stopped"]
    /\ UNCHANGED <<captureVars, now, stream, abVars, state, state_lock,
                   ctl_req, ctl_saw, outVars>>
    /\ UNCHANGED <<rsVars, lvVars, stVars, trVars, extVars>>

(* ... and ends by dropping self.  The copy and its duration become the    *)
(* Processing state, which goes to the transcription engine.               *)
CtlStopDone(c) ==
    /\ ctl_pc[c] = "stopped"
    /\ DropStream
    /\ state' = start_processing(ctl_snap[c], duration_seconds(ctl_snap[c]))
    /\ out' = "transcribe"
    /\ last_reset_from' = None
    /\ Release(c)
    /\ UNCHANGED <<now, abVars, cancelled>>
    /\ UNCHANGED <<rsVars, lvVars, stVars, trVars, extVars>>

\* cancel handled as stop is: the samples are copied and sent on
CtlCancelAsStop(c) ==
    /\ ctl_pc[c] = "locked"
    /\ ctl_req[c] = "cancel"
    /\ DropStream
    /\ state' = IF is_recording(state)
                THEN start_processing(get_samples(samples),
                                      duration_seconds(get_samples(samples)))
                ELSE idle
    /\ out' = IF is_recording(state) THEN "transcribe" ELSE None
    /\ last_reset_from' = state.tag
    /\ cancelled' = IF state.tag = "Recording" THEN TRUE ELSE cancelled
    /\ Release(c)
    /\ UNCHANGED <<now, abVars>>
    /\ UNCHANGED <<rsVars, lvVars, stVars, trVars, extVars>>

\* cancel: straight to DictationState::idle(); the stream is dropped
CtlCancel(c) ==
    /\ ctl_pc[c] = "locked"
    /\ ctl_req[c] = "cancel"
    /\ DropStream
    /\ state' = idle
    /\ out' = None
    /\ last_reset_from' = state.tag
    /\ cancelled' = IF state.tag = "Recording" THEN TRUE ELSE cancelled
    /\ Release(c)
    /\ UNCHANGED <<now, abVars>>
    /\ UNCHANGED <<rsVars, lvVars, stVars, trVars, extVars>>

(* The transcription of a Processing state ends.  Text that is not empty   *)
(* is pasted and written to the history.  A recording without samples is   *)
(* transcribed to the empty text (transcribe_dictation).                   *)
Complete(text) ==
    /\ StateLockFree
    /\ is_processing(state)
    /\ state.audio_data = <<>> => text = ""
    /\ state' = idle
    /\ out' = IF text # "" THEN "history" ELSE None
    /\ last_reset_from' = None
    /\ UNCHANGED <<captureVars, now, stream, abVars, state_lock, ctlVars,
                   cancelled>>
    /\ UNCHANGED <<rsVars, lvVars, stVars, trVars, extVars>>

\* The transcription fails, which it cannot do without samples.
Fail(msg) ==
    /\ StateLockFree
    /\ is_processing(state)
    /\ state.audio_data # <<>>
    /\ state' = error(msg)
    /\ out' = None
    /\ last_reset_from' = None
    /\ UNCHANGED <<captureVars, now, stream, abVars, state_lock, ctlVars,
                   cancelled>>
    /\ UNCHANGED <<rsVars, lvVars, stVars, trVars, extVars>>

----------------------------------------------------------------------------
(* The data callback's conversion (build_input_stream): every frame is     *)
(* mixed down to one f32, and a fractional accumulator decides which       *)
(* frames are kept.  f32 values are integers counting units of 2^-24; a    *)
(* result is rounded to the f32 grid at its magnitude, ties to even.       *)

\* the source rates and channel counts a device may have
SourceRates == {8000, 16000, 44100, 48000}
Channels == {1, 2}

\* 1.0f32
F32One == 2^24

RECURSIVE UlpFrom(_, _)
UlpFrom(x, u) == IF x < u * F32One THEN u ELSE UlpFrom(x, 2 * u)
\* the spacing of f32 values at x >= 0 (1 unit below 1.0)
Ulp(x) == UlpFrom(x, 1)

\* n / d rounded to the nearest multiple of u, ties to the even multiple
RoundDiv(n, d, u) ==
    LET q == n \div (d * u)
        r == n % (d * u)
    IN  IF 2 * r > d * u \/ (2 * r = d * u /\ q % 2 = 1)
        THEN (q + 1) * u
        ELSE q * u

\* an exact sum or difference rounded to f32
F32Round(x) == RoundDiv(x, 1, Ulp(x))

(* source_sample_rate as f32 / DICTATION_SAMPLE_RATE as f32: the exact     *)
(* quotient is rate * 2^24 / 16000 units = (rate / 25) * 2^17 / 5, and the *)
(* division rounds it to f32.                                              *)
resample_ratio(source_sample_rate) ==
    LET n == (source_sample_rate \div 25) * 2^17
    IN  RoundDiv(n, 5, Ulp(n \div 5))

RECURSIVE SumSeq(_)
SumSeq(q) == IF q = <<>> THEN 0 ELSE Head(q) + SumSeq(Tail(q))

\* f32 as i16 of a quotient: the fraction is cut off, toward zero
TruncDiv(a, b) == IF a >= 0 THEN a \div b ELSE -((-a) \div b)

\* chunk.iter().map(i16 as f32).sum() / source_channels, then as i16
Downmix(chunk) == TruncDiv(SumSeq(chunk), Len(chunk))

\* the frame kept only when the accumulator is above the ratio
RsFrameStrict(chunk) ==
    /\ rs_fed < MaxFrames
    /\ Len(chunk) = rs_channels
    /\ LET acc == F32Round(rs_acc + F32One)
           ratio == resample_ratio(rs_rate)
       IN  IF acc > ratio
           THEN /\ rs_acc' = F32Round(acc - ratio)
                /\ rs_out' = Append(rs_out, Downmix(chunk))
           ELSE /\ rs_acc' = acc
                /\ rs_out' = rs_out
    /\ rs_fed' = rs_fed + 1
    /\ rs_in' = Append(rs_in, Downmix(chunk))
    /\ rs_blocks' = Append(rs_blocks, 1)
    /\ UNCHANGED <<rs_rate, rs_channels, captureVars, now, stream, abVars,
                   sessionVars, lvVars, stVars, trVars, extVars>>

(* One frame of the callback's loop: sample_accumulator += 1.0; when it    *)
(* has reached resample_ratio, the ratio is taken off and the frame's      *)
(* mono sample is pushed.                                                  *)
RsFrame(chunk) ==
    /\ rs_fed < MaxFrames
    /\ Len(chunk) = rs_channels
    /\ LET acc == F32Round(rs_acc + F32One)
           ratio == resample_ratio(rs_rate)
       IN  IF acc >= ratio
           THEN /\ rs_acc' = F32Round(acc - ratio)
                /\ rs_out' = Append(rs_out, Downmix(chunk))
           ELSE /\ rs_acc' = acc
                /\ rs_out' = rs_out
    /\ rs_fed' = rs_fed + 1
    /\ rs_in' = Append(rs_in, Downmix(chunk))
    /\ rs_blocks' = Append(rs_blocks, 1)
    /\ UNCHANGED <<rs_rate, rs_channels, captureVars, now, stream, abVars,
                   sessionVars, lvVars, stVars, trVars, extVars>>

\* A stream has been built on a device; nothing else is going on.
InitResample ==
    /\ InitCommon
    /\ DbAtRest
    /\ HkAtRest
    /\ LkAtRest
    /\ LvAtRest
    /\ StAtRest
    /\ state = idle
    /\ stream = "none"
    /\ start_time = NoInstant
    /\ rs_rate \in SourceRates
    /\ rs_channels \in Channels
    /\ rs_acc = 0
    /\ rs_fed = 0
    /\ rs_in = <<>>
    /\ rs_out = <<>>
    /\ rs_blocks = <<>>

\* the most frames one call of the callback is given
MaxBlock == 3

\* data: &[T] as its chunks: up to MaxBlock frames of the stream's channels
Blocks(channels) ==
    UNION {[1..n -> [1..channels -> Sample]] : n \in 2..MaxBlock}

\* the body of the loop with the ratio never taken off the accumulator
RsStepKeeping(st, chunk, ratio) ==
    LET acc == F32Round(st.acc + F32One)
    IN  IF acc >= ratio
        THEN [acc |-> acc, out |-> Append(st.out, Downmix(chunk))]
        ELSE [acc |-> acc, out |-> st.out]

\* the body of the loop over the chunks: st is the accumulator and the
\* samples pushed so far
RsStep(st, chunk, ratio) ==
    LET acc == F32Round(st.acc + F32One)
    IN  IF acc >= ratio
        THEN [acc |-> F32Round(acc - ratio),
              out |-> Append(st.out, Downmix(chunk))]
        ELSE [acc |-> acc, out |-> st.out]

\* for chunk in data.chunks(source_channels)
RECURSIVE RsLoop(_, _, _)
RsLoop(st, data, ratio) ==
    IF data = <<>>
    THEN st
    ELSE RsLoop(RsStep(st, Head(data), ratio), Tail(data), ratio)

\* the accumulator a local of the callback, zero as each call begins
RsBlockFromZero(data) ==
    /\ rs_fed + Len(data) <= MaxFrames
    /\ LET done == RsLoop([acc |-> 0, out |-> <<>>], data,
                          resample_ratio(rs_rate))
       IN  /\ rs_acc' = done.acc
           /\ rs_out' = rs_out \o done.out
    /\ rs_fed' = rs_fed + Len(data)
    /\ rs_in' = rs_in \o [i \in 1..Len(data) |-> Downmix(data[i])]
    /\ rs_blocks' = Append(rs_blocks, Len(data))
    /\ UNCHANGED <<rs_rate, rs_channels, captureVars, now, stream, abVars,
                   sessionVars, lvVars, stVars, trVars, extVars>>

(* One call of the callback with several frames: resampled_samples starts  *)
(* empty, sample_accumulator is where the call before left it.             *)
RsBlock(data) ==
    /\ rs_fed + Len(data) <= MaxFrames
    /\ LET done == RsLoop([acc |-> rs_acc, out |-> <<>>], data,
                          resample_ratio(rs_rate))
       IN  /\ rs_acc' = done.acc
           /\ rs_out' = rs_out \o done.out
    /\ rs_fed' = rs_fed + Len(data)
    /\ rs_in' = rs_in \o [i \in 1..Len(data) |-> Downmix(data[i])]
    /\ rs_blocks' = Append(rs_blocks, Len(data))
    /\ UNCHANGED <<rs_rate, rs_channels, captureVars, now, stream, abVars,
                   sessionVars, lvVars, stVars, trVars, extVars>>

NextResample ==
    \/ \E chunk \in [1..rs_channels -> Sample] : RsFrame(chunk)
    \/ \E data \in Blocks(rs_channels) : RsBlock(data)

SpecResample == InitResample /\ [][NextResample]_vars

(***************************************************************************)
(* The level meter: AudioBuffer::calculate_rms_level(window_size) and      *)
(* AudioCaptureBuffer::calculate_rms_level(), which are the same code but  *)
(* for the window size.  A level is kept exactly, as the sum of squares    *)
(* and the length of the window it was computed from: it stands for        *)
(* sqrt(sum / len) / i16::MAX.  The sum is held in two limbs so that the   *)
(* squares of full-scale samples can be added.                             *)
(***************************************************************************)
Limb == 2^15

\* i16::MIN
I16_MIN == -I16_MAX - 1

\* samples a level is asked of: both ends of i16, silence, and the test's 1000
LevelSample == {I16_MIN, 0, 1000, I16_MAX}

\* <<hi, lo>> stands for hi * Limb + lo, with 0 <= lo < Limb
Wide(hi, lo) == <<hi + (lo \div Limb), lo % Limb>>
WideTimes(n, x) == Wide(n * x[1], n * x[2])
WideLess(a, b) == a[1] < b[1] \/ (a[1] = b[1] /\ a[2] < b[2])
WideLeq(a, b) == a = b \/ WideLess(a, b)

RECURSIVE SumSqHi(_)
SumSqHi(w) ==
    IF w = <<>> THEN 0 ELSE ((Head(w) * Head(w)) \div Limb) + SumSqHi(Tail(w))

RECURSIVE SumSqLo(_)
SumSqLo(w) ==
    IF w = <<>> THEN 0 ELSE ((Head(w) * Head(w)) % Limb) + SumSqLo(Tail(w))

\* window.iter().map(|&s| (s as f64).powi(2)).sum(): exact in f64
sum_of_squares(window) == Wide(SumSqHi(window), SumSqLo(window))

\* the square of i16::MAX
MaxSquare == Wide((I16_MAX * I16_MAX) \div Limb, (I16_MAX * I16_MAX) % Limb)

\* the levels 0.0 and 1.0
LevelZero == [sum |-> <<0, 0>>, len |-> 1]
LevelOne == [sum |-> MaxSquare, len |-> 1]

\* 0.0 <= level <= 1.0
LevelInUnit(l) ==
    /\ WideLeq(<<0, 0>>, l.sum)
    /\ WideLeq(l.sum, WideTimes(l.len, MaxSquare))

\* samples.len().saturating_sub(window_size)
saturating_sub(a, b) == IF a > b THEN a - b ELSE 0

\* calculate_rms_level with the whole buffer for its window
calculate_rms_level_whole(s, window_size) ==
    IF s = <<>> THEN LevelZero
    ELSE LET start == IF window_size = 0 THEN Len(s) ELSE 0
             window == SubSeq(s, start + 1, Len(s))
             sum == sum_of_squares(window)
         IN  IF window = <<>> THEN LevelZero
             ELSE IF sum = <<0, 0>> THEN LevelZero
             ELSE IF WideLess(sum, WideTimes(Len(window), MaxSquare))
                  THEN [sum |-> sum, len |-> Len(window)]
                  ELSE LevelOne

\* calculate_rms_level with the final .min(1.0) left out
calculate_rms_level_unclamped(s, window_size) ==
    IF s = <<>> THEN LevelZero
    ELSE LET start == saturating_sub(Len(s), window_size)
             window == SubSeq(s, start + 1, Len(s))
             sum == sum_of_squares(window)
         IN  IF window = <<>> THEN LevelZero
             ELSE IF sum = <<0, 0>> THEN LevelZero
             ELSE [sum |-> sum, len |-> Len(window)]

\* calculate_rms_level: 0.0 for an empty buffer or an empty window, else
\* (sqrt(sum_of_squares / window.len()) / i16::MAX).min(1.0)
calculate_rms_level(s, window_size) ==
    IF s = <<>> THEN LevelZero
    ELSE LET start == saturating_sub(Len(s), window_size)
             window == SubSeq(s, start + 1, Len(s))
             sum == sum_of_squares(window)
         IN  IF window = <<>> THEN LevelZero
             ELSE IF sum = <<0, 0>> THEN LevelZero
             ELSE IF WideLess(sum, WideTimes(Len(window), MaxSquare))
                  THEN [sum |-> sum, len |-> Len(window)]
                  ELSE LevelOne

\* AudioBuffer::calculate_rms_level(window_size)
LvAudioBuffer(window_size) ==
    /\ lv_op = None
    /\ lv_op' = "AudioBuffer"
    /\ lv_window' = window_size
    /\ lv_ret' = calculate_rms_level(lv_samples, window_size)
    /\ UNCHANGED <<lv_samples, captureVars, now, stream, abVars, sessionVars,
                   rsVars, stVars, trVars, extVars>>

\* AudioCaptureBuffer::calculate_rms_level(): the window is RMS_WINDOW_SIZE
LvCaptureBuffer ==
    /\ lv_op = None
    /\ lv_op' = "AudioCaptureBuffer"
    /\ lv_window' = RMS_WINDOW_SIZE
    /\ lv_ret' = calculate_rms_level(lv_samples, RMS_WINDOW_SIZE)
    /\ UNCHANGED <<lv_samples, captureVars, now, stream, abVars, sessionVars,
                   rsVars, stVars, trVars, extVars>>

\* the buffers a level is asked of
LevelBuffers == UNION {[1..n -> LevelSample] : n \in 0..MaxWindow}

\* &samples[samples.len().saturating_sub(n)..]: the last n samples, or all
LastN(s, n) == SubSeq(s, saturating_sub(Len(s), n) + 1, Len(s))

\* a buffer holding any samples, before its level is asked for
InitLevel ==
    /\ InitCommon
    /\ DbAtRest
    /\ HkAtRest
    /\ LkAtRest
    /\ RsAtRest
    /\ StAtRest
    /\ state = idle
    /\ stream = "none"
    /\ start_time = NoInstant
    /\ lv_samples \in LevelBuffers
    /\ lv_window = 0
    /\ lv_op = None
    /\ lv_ret = None

NextLevel ==
    \/ \E window_size \in 0..MaxWindow : LvAudioBuffer(window_size)
    \/ LvCaptureBuffer

SpecLevel == InitLevel /\ [][NextLevel]_vars

----------------------------------------------------------------------------
(* The level meter on the shared buffer: the control thread has taken the  *)
(* samples lock (UiLock) and computes the level of the last                 *)
(* RMS_WINDOW_SIZE samples; the guard is dropped as it returns (UiReturn).  *)

\* a level meter that takes its window out of the buffer
UiLevelDraining ==
    /\ ui_pc = "locked"
    /\ ui_op \in LevelOps
    /\ ui_ret' = calculate_rms_level(samples, RMS_WINDOW_SIZE)
    /\ samples' = SubSeq(samples, 1, saturating_sub(Len(samples), RMS_WINDOW_SIZE))
    /\ ui_pc' = "measured"
    /\ UNCHANGED <<start_time, samples_lock, start_time_lock, cbVars, ui_op,
                   histVars, now, stream, abVars, sessionVars>>
    /\ UNCHANGED <<rsVars, lvVars, stVars, trVars, extVars>>

\* AudioCaptureBuffer::calculate_rms_level, under the samples lock
UiLevel ==
    /\ ui_pc = "locked"
    /\ ui_op \in LevelOps
    /\ ui_ret' = calculate_rms_level(samples, RMS_WINDOW_SIZE)
    /\ ui_pc' = "measured"
    /\ UNCHANGED <<bufVars, cbVars, ui_op, histVars, now, stream, abVars,
                   sessionVars>>
    /\ UNCHANGED <<rsVars, lvVars, stVars, trVars, extVars>>

----------------------------------------------------------------------------
(* AudioCaptureStream::start(device_id), step by step: the device is       *)
(* looked up, its default input config is fetched, a buffer is created and *)
(* started, the input stream is built for the config's sample format, and  *)
(* the stream is played.  Each `?` returns the error and drops what was    *)
(* made so far.  The host is what cpal reports on this call.               *)

\* the device ids start is called with: none, two indices, one that is no number
StartIds == {None, "0", "1", "mic"}

\* cpal::SampleFormat: the three start accepts, and one it does not
SupportedFormats == {"I16", "I32", "F32"}
Formats == SupportedFormats \cup {"U8"}

Hosts ==
    [default : BOOLEAN,      \* host.default_input_device() is Some
     enumerate : BOOLEAN,    \* host.devices() is Ok
     devices : 0..1,         \* the number of devices host.devices() yields
     config : BOOLEAN,       \* device.default_input_config() is Ok
     format : Formats,       \* supported_config.sample_format()
     build : BOOLEAN,        \* device.build_input_stream(..) is Ok
     play : BOOLEAN]         \* stream.play() is Ok

\* device_id.parse::<usize>()
parse_device_index(device_id) ==
    CASE device_id = "0" -> Some(0)
      [] device_id = "1" -> Some(1)
      [] OTHER -> NoInstant

\* lines 153-161: the device, or the error the lookup ends with
device_lookup(device_id, host) ==
    IF device_id # None
    THEN IF parse_device_index(device_id) = NoInstant
         THEN "Failed to parse device ID"
         ELSE IF ~host.enumerate
         THEN "Failed to enumerate devices"
         ELSE IF parse_device_index(device_id)[1] >= host.devices
         THEN "Failed to get device by ID"
         ELSE "Ok"
    ELSE IF host.default THEN "Ok" ELSE "No default input device"

\* start returns Err(msg): the call is over
StFail(msg) ==
    /\ st_ret' = msg
    /\ st_pc' = "done"

\* AudioCaptureStream::start(device_id) is called
StCall ==
    /\ st_pc = "idle"
    /\ st_pc' = "device"
    /\ UNCHANGED <<st_device_id, st_host, st_ret>>
    /\ UNCHANGED <<captureVars, now, stream, abVars, sessionVars, rsVars,
                   lvVars, trVars, extVars>>

\* let device = ...
StDevice ==
    /\ st_pc = "device"
    /\ IF device_lookup(st_device_id, st_host) = "Ok"
       THEN st_pc' = "config" /\ UNCHANGED st_ret
       ELSE StFail(device_lookup(st_device_id, st_host))
    /\ UNCHANGED <<st_device_id, st_host>>
    /\ UNCHANGED <<captureVars, now, stream, abVars, sessionVars, rsVars,
                   lvVars, trVars, extVars>>

\* let supported_config = device.default_input_config().context(..)?
StConfig ==
    /\ st_pc = "config"
    /\ IF st_host.config
       THEN st_pc' = "buffer" /\ UNCHANGED st_ret
       ELSE StFail("Failed to get default input config")
    /\ UNCHANGED <<st_device_id, st_host>>
    /\ UNCHANGED <<captureVars, now, stream, abVars, sessionVars, rsVars,
                   lvVars, trVars, extVars>>

\* let buffer = AudioCaptureBuffer::new(); buffer.start_recording();
StBuffer ==
    /\ st_pc = "buffer"
    /\ samples' = <<>>
    /\ start_time' = Some(now)
    /\ st_pc' = "build"
    /\ UNCHANGED <<st_device_id, st_host, st_ret>>
    /\ UNCHANGED <<samples_lock, start_time_lock, cbVars, uiVars, histVars,
                   now, stream, abVars, sessionVars, rsVars, lvVars,
                   trVars, extVars>>

\* the match building a stream whatever the sample format
StBuildAnyFormat ==
    /\ st_pc = "build"
    /\ IF st_host.build
       THEN /\ stream' = "built"
            /\ IF st_host.format \in SupportedFormats
               THEN st_pc' = "play" /\ UNCHANGED st_ret
               ELSE StFail("Unsupported sample format")
            /\ UNCHANGED <<samples, start_time>>
       ELSE /\ StFail("BuildStreamError")
            /\ samples' = <<>>
            /\ start_time' = NoInstant
            /\ UNCHANGED stream
    /\ UNCHANGED <<st_device_id, st_host>>
    /\ UNCHANGED <<samples_lock, start_time_lock, cbVars, uiVars, histVars,
                   now, abVars, sessionVars, rsVars, lvVars, trVars, extVars>>

(* let stream = match supported_config.sample_format() { I16 | I32 | F32   *)
(* => build_input_stream(..)?, format => bail!(..) }; an error drops the   *)
(* buffer                                                                  *)
StBuild ==
    /\ st_pc = "build"
    /\ IF st_host.format \in SupportedFormats
       THEN IF st_host.build
            THEN /\ stream' = "built"
                 /\ st_pc' = "play"
                 /\ UNCHANGED <<st_ret, samples, start_time>>
            ELSE /\ StFail("BuildStreamError")
                 /\ samples' = <<>>
                 /\ start_time' = NoInstant
                 /\ UNCHANGED stream
       ELSE /\ StFail("Unsupported sample format")
            /\ samples' = <<>>
            /\ start_time' = NoInstant
            /\ UNCHANGED stream
    /\ UNCHANGED <<st_device_id, st_host>>
    /\ UNCHANGED <<samples_lock, start_time_lock, cbVars, uiVars, histVars,
                   now, abVars, sessionVars, rsVars, lvVars, trVars, extVars>>

(* stream.play().context(..)?; Ok(Self { stream, buffer }).  An error      *)
(* drops the stream, which waits for its callback, and the buffer.         *)
StPlay ==
    /\ st_pc = "play"
    /\ IF st_host.play
       THEN /\ stream' = "playing"
            /\ st_ret' = "Ok"
            /\ st_pc' = "done"
            /\ UNCHANGED <<samples, start_time, histVars, cb_result>>
       ELSE /\ cb_pc = "idle"
            /\ StFail("Failed to start audio stream")
            /\ stream' = "none"
            /\ samples' = <<>>
            /\ start_time' = NoInstant
            /\ accepted' = <<>>
            /\ attempted' = 0
            /\ rejected' = FALSE
            /\ cb_result' = None
    /\ UNCHANGED <<st_device_id, st_host>>
    /\ UNCHANGED <<samples_lock, start_time_lock, cb_pc, cb_batch, cb_i,
                   cb_pre, uiVars, now, abVars, sessionVars, rsVars, lvVars,
                   trVars, extVars>>

\* start is about to be called with some device id on some host
InitStart ==
    /\ InitCommon
    /\ DbAtRest
    /\ HkAtRest
    /\ LkAtRest
    /\ RsAtRest
    /\ LvAtRest
    /\ state = idle
    /\ stream = "none"
    /\ start_time = NoInstant
    /\ st_pc = "idle"
    /\ st_device_id \in StartIds
    /\ st_host \in Hosts
    /\ st_ret = None
    /\ TrAtRest

NextStart ==
    \/ StCall
    \/ StDevice
    \/ StConfig
    \/ StBuffer
    \/ StBuild
    \/ StPlay
    \/ \E b \in SessionBatch : CbBegin(b)
    \/ CbLock
    \/ CbCheck
    \/ CbExtend
    \/ CbReturn

SpecStart == InitStart /\ [][NextStart]_vars

----------------------------------------------------------------------------
(* transcribe_dictation(ctx, audio_samples, language, init_prompt)         *)
(* (dictation_transcribe.rs).  Text is a sequence of characters.  The      *)
(* engine is what the Whisper context answers when it is called; the calls *)
(* made to it are listed in the result.                                    *)

\* the segments a Whisper run may produce
SegmentLists ==
    {<<>>, <<<<" ">>>>, <<<<" ", "h", "i">>>>,
     <<<<" ", "h", "i">>, <<" ", "y", "o">>>>}

Engines ==
    [create_state : BOOLEAN,   \* ctx.create_state() is Ok
     full : BOOLEAN,           \* state.full(params, &audio_data) is Ok
     n_segments : BOOLEAN,     \* state.full_n_segments() is Ok
     segment_text : BOOLEAN,   \* state.full_get_segment_text(i) is Ok
     segments : SegmentLists]

\* the audio handed to transcribe_dictation
Audios == {<<>>} \cup Batch

RECURSIVE JoinSegments(_)
\* push_str(&segment_text); push(' ') for every segment
JoinSegments(segs) ==
    IF segs = <<>> THEN <<>>
    ELSE Head(segs) \o <<" ">> \o JoinSegments(Tail(segs))

RECURSIVE TrimStart(_)
TrimStart(t) == IF t # <<>> /\ Head(t) = " " THEN TrimStart(Tail(t)) ELSE t

RECURSIVE TrimEnd(_)
TrimEnd(t) ==
    IF t # <<>> /\ t[Len(t)] = " " THEN TrimEnd(SubSeq(t, 1, Len(t) - 1)) ELSE t

\* str::trim
Trim(t) == TrimEnd(TrimStart(t))

\* the engine's calls for the text of every segment
SegmentCalls(n) == [i \in 1..n |-> "full_get_segment_text"]

TrOk(text, calls) ==
    [result |-> "Ok", text |-> text, message |-> "", calls |-> calls]
TrErr(message, calls) ==
    [result |-> "Err", text |-> <<>>, message |-> message, calls |-> calls]

\* what follows the test for empty audio
run_whisper(engine) ==
    IF ~engine.create_state
    THEN TrErr("Failed to create Whisper state", <<"create_state">>)
    ELSE IF ~engine.full
    THEN TrErr("Failed to run Whisper transcription", <<"create_state", "full">>)
    ELSE IF ~engine.n_segments
    THEN TrErr("Failed to get segment count",
               <<"create_state", "full", "full_n_segments">>)
    ELSE IF engine.segments # <<>> /\ ~engine.segment_text
    THEN TrErr("Failed to get segment text",
               <<"create_state", "full", "full_n_segments",
                 "full_get_segment_text">>)
    ELSE TrOk(Trim(JoinSegments(engine.segments)),
              <<"create_state", "full", "full_n_segments">>
                 \o SegmentCalls(Len(engine.segments)))

\* transcribe_dictation without its test for empty audio
transcribe_dictation_unguarded(audio_samples, engine) == run_whisper(engine)

\* transcribe_dictation: Ok(String::new()) at once for no audio
transcribe_dictation(audio_samples, engine) ==
    IF audio_samples = <<>> THEN TrOk(<<>>, <<>>) ELSE run_whisper(engine)

\* a call of transcribe_dictation
TrCall ==
    /\ tr_ret = NotCalled
    /\ tr_ret' = transcribe_dictation(tr_audio, tr_engine)
    /\ UNCHANGED <<tr_audio, tr_engine>>
    /\ UNCHANGED <<captureVars, now, stream, abVars, sessionVars, rsVars,
                   lvVars, stVars, extVars>>

\* some audio is about to be transcribed by some engine
InitTranscribe ==
    /\ InitCommon
    /\ DbAtRest
    /\ HkAtRest
    /\ LkAtRest
    /\ RsAtRest
    /\ LvAtRest
    /\ state = idle
    /\ stream = "none"
    /\ start_time = NoInstant
    /\ st_pc = "idle"
    /\ st_device_id = None
    /\ st_host = None
    /\ st_ret = None
    /\ tr_audio \in Audios
    /\ tr_engine \in Engines
    /\ tr_ret = NotCalled

NextTranscribe == TrCall

SpecTranscribe == InitTranscribe /\ [][NextTranscribe]_vars

----------------------------------------------------------------------------
(* The dictation history (DictationHistory): the rows of one SQLite table. *)
(* A row's timestamp is the text chrono's to_rfc3339 wrote, here a         *)
(* sequence of characters, and texts are compared as SQLite compares TEXT  *)
(* values: character code by character code, a proper prefix first.  The   *)
(* clock counts seconds and nanoseconds; the seconds stand for the date    *)
(* and time of day, which to_rfc3339 writes in fields of fixed width.      *)

\* the first and the last second of the clock, and the rows ever inserted
HistStart == 8
MaxHistTime == 11
MaxRows == 2

\* chrono::Duration::days(30), scaled down to seconds of the clock
RETENTION_DAYS == 2

\* the nanoseconds the clock may show: none, 1 ns, 1 us, 500 ms
Nanos == {0, 1, 1000, 500000000}
Instants == (HistStart..MaxHistTime) \X Nanos

\* the characters of a timestamp and their codes
Ascii ==
    [c \in {"+", ".", "0", "1", "2", "3", "4", "5", "6", "7", "8", "9", ":"} |->
        CASE c = "+" -> 43
          [] c = "." -> 46
          [] c = ":" -> 58
          [] OTHER -> 48 + (CHOOSE d \in 0..9 :
                               <<"0", "1", "2", "3", "4", "5", "6", "7", "8",
                                 "9">>[d + 1] = c)]

DigitChar(d) ==
    <<"0", "1", "2", "3", "4", "5", "6", "7", "8", "9">>[d + 1]

\* n written in decimal in a field of the given width, zeros in front
RECURSIVE Decimal(_, _)
Decimal(n, width) ==
    IF width = 0
    THEN <<>>
    ELSE Append(Decimal(n \div 10, width - 1), DigitChar(n % 10))

(* SecondsFormat::AutoSi: no fraction when the nanoseconds are zero,       *)
(* otherwise three, six or nine digits, the fewest that lose nothing       *)
Fraction(nanos) ==
    IF nanos = 0 THEN <<>>
    ELSE IF nanos % 1000000 = 0 THEN <<".">> \o Decimal(nanos \div 1000000, 3)
    ELSE IF nanos % 1000 = 0 THEN <<".">> \o Decimal(nanos \div 1000, 6)
    ELSE <<".">> \o Decimal(nanos, 9)

\* DateTime<Utc>::to_rfc3339
to_rfc3339(t) ==
    Decimal(t[1], 2) \o Fraction(t[2]) \o <<"+", "0", "0", ":", "0", "0">>

\* SQLite's comparison of two TEXT values (BINARY collation): a < b
RECURSIVE TextLess(_, _)
TextLess(a, b) ==
    IF b = <<>> THEN FALSE
    ELSE IF a = <<>> THEN TRUE
    ELSE IF Ascii[Head(a)] # Ascii[Head(b)]
         THEN Ascii[Head(a)] < Ascii[Head(b)]
         ELSE TextLess(Tail(a), Tail(b))

\* DateTime - Duration::days(days)
MinusDays(t, days) == <<t[1] - days, t[2]>>

\* instant a is earlier than instant b
Earlier(a, b) == a[1] < b[1] \/ (a[1] = b[1] /\ a[2] < b[2])

\* a row of dictation_history; at is history: the instant it was written
Row(id, t, text) ==
    [id |-> id, timestamp |-> to_rfc3339(t), at |-> t,
     transcription_text |-> text]

\* DELETE FROM dictation_history WHERE timestamp <= ?1
cleanup_old_entries_inclusive(rows, t) ==
    LET cutoff_timestamp == to_rfc3339(MinusDays(t, RETENTION_DAYS))
        old == {r \in rows : ~TextLess(cutoff_timestamp, r.timestamp)}
    IN  [rows |-> rows \ old, deleted |-> Cardinality(old)]

(* DictationHistory::cleanup_old_entries at instant t:                     *)
(* DELETE FROM dictation_history WHERE timestamp < ?1, which returns the   *)
(* number of rows it deleted                                               *)
cleanup_old_entries(rows, t) ==
    LET cutoff_timestamp == to_rfc3339(MinusDays(t, RETENTION_DAYS))
        old == {r \in rows : TextLess(r.timestamp, cutoff_timestamp)}
    IN  [rows |-> rows \ old, deleted |-> Cardinality(old)]

\* DictationHistory::insert
DbInsert(text) ==
    /\ db_next_id <= MaxRows
    /\ db_rows' = db_rows \cup {Row(db_next_id, db_now, text)}
    /\ db_ret' = [op |-> "insert", value |-> db_next_id]
    /\ db_next_id' = db_next_id + 1
    /\ UNCHANGED <<db_now, hkVars, lkVars, appVars>>

\* DictationHistory::cleanup_old_entries
DbCleanup ==
    /\ db_rows' = cleanup_old_entries(db_rows, db_now).rows
    /\ db_ret' = [op |-> "cleanup",
                  value |-> cleanup_old_entries(db_rows, db_now).deleted]
    /\ UNCHANGED <<db_now, db_next_id, hkVars, lkVars, appVars>>

\* Time passes.
DbTick(t) ==
    /\ Earlier(db_now, t)
    /\ db_now' = t
    /\ UNCHANGED <<db_rows, db_next_id, db_ret, hkVars, lkVars, appVars>>

\* Everything but the history is at rest.
AppAtRest ==
    /\ InitCommon
    /\ RsAtRest
    /\ LvAtRest
    /\ StAtRest
    /\ state = idle
    /\ stream = "none"
    /\ start_time = NoInstant

\* DictationHistory::new on a new database file
InitHistory ==
    /\ AppAtRest
    /\ HkAtRest
    /\ LkAtRest
    /\ db_rows = {}
    /\ db_now = <<HistStart, 0>>
    /\ db_next_id = 1
    /\ db_ret = [op |-> None, value |-> 0]

NextHistory ==
    \/ \E text \in Texts : DbInsert(text)
    \/ DbCleanup
    \/ \E t \in Instants : DbTick(t)

SpecHistory == InitHistory /\ [][NextHistory]_vars

----------------------------------------------------------------------------
(* The locks of AudioCaptureBuffer alone: every method as the sequence of  *)
(* Mutexes it locks, each guard kept until the method returns, and three   *)
(* threads calling the methods as they please.                             *)

\* the methods a control thread may call, and the callback's one
ControlOps ==
    {"start_recording", "get_samples", "len", "is_empty",
     "calculate_rms_level", "recording_duration",
     "has_exceeded_max_duration", "duration_seconds", "clear"}
CallbackOps == {"append_samples"}

\* clear locking start_time before samples
LockOrderClearReversed(op) ==
    CASE op = "clear" -> <<"start_time", "samples">>
      [] op = "start_recording" -> <<"samples", "start_time">>
      [] op \in {"recording_duration", "has_exceeded_max_duration"}
            -> <<"start_time">>
      [] OTHER -> <<"samples">>

\* the Mutexes a method locks, in the order of its statements
LockOrder(op) ==
    CASE op \in {"start_recording", "clear"} -> <<"samples", "start_time">>
      [] op \in {"recording_duration", "has_exceeded_max_duration"}
            -> <<"start_time">>
      [] OTHER -> <<"samples">>

\* thread t calls a method
LkCall(t, op) ==
    /\ lk_pc[t].op = None
    /\ lk_pc' = [lk_pc EXCEPT ![t] = [op |-> op, held |-> 0]]
    /\ UNCHANGED <<lk_owner, dbVars, hkVars, appVars>>

\* the Mutex thread t is about to lock
NextLock(t) == LockOrder(lk_pc[t].op)[lk_pc[t].held + 1]

\* self.<field>.lock().unwrap(): the thread waits until the Mutex is free
LkAcquire(t) ==
    /\ lk_pc[t].op # None
    /\ lk_pc[t].held < Len(LockOrder(lk_pc[t].op))
    /\ lk_owner[NextLock(t)] = None
    /\ lk_owner' = [lk_owner EXCEPT ![NextLock(t)] = t]
    /\ lk_pc' = [lk_pc EXCEPT ![t].held = @ + 1]
    /\ UNCHANGED <<dbVars, hkVars, appVars>>

\* the method returns and its guards are dropped
LkReturn(t) ==
    /\ lk_pc[t].op # None
    /\ lk_pc[t].held = Len(LockOrder(lk_pc[t].op))
    /\ lk_owner' = [l \in Locks |-> IF lk_owner[l] = t THEN None
                                     ELSE lk_owner[l]]
    /\ lk_pc' = [lk_pc EXCEPT ![t] = [op |-> None, held |-> 0]]
    /\ UNCHANGED <<dbVars, hkVars, appVars>>

InitLocks ==
    /\ AppAtRest
    /\ DbAtRest
    /\ HkAtRest
    /\ LkAtRest

NextLocks ==
    \/ \E op \in CallbackOps : LkCall("cb", op)
    \/ \E t \in Threads \ {"cb"}, op \in ControlOps : LkCall(t, op)
    \/ \E t \in Threads : LkAcquire(t)
    \/ \E t \in Threads : LkReturn(t)

SpecLocks == InitLocks /\ [][NextLocks]_vars

----------------------------------------------------------------------------
(* The global hotkey on Windows (WindowsKeyboardHookManager).  The manager *)
(* is called with &mut self, one call at a time; every successful          *)
(* register_hotkey spawns a thread that loops over GetMessageW and holds   *)
(* clones of the callback and of is_key_down.  What GetMessageW returns is *)
(* an input, except that a WM_HOTKEY message carries an id that is         *)
(* registered with the system as it is returned.                           *)

\* the most threads spawned and the most calls of callbacks recorded
MaxLoops == 2
MaxEvents == 3

\* shortcut strings, as their parts between the '+' signs
Shortcuts ==
    {<<"Ctrl", "Alt", "S">>, <<"S">>, <<"Cmd", "S">>, <<"Ctrl", "F1">>}

\* the messages of the thread's queue
VK_ESCAPE == 27
VK_S == 83
NoMsg == [message |-> None, wParam |-> 0]
Msgs ==
    {[message |-> "WM_HOTKEY", wParam |-> 1],
     [message |-> "WM_KEYDOWN", wParam |-> VK_ESCAPE],
     [message |-> "WM_KEYDOWN", wParam |-> VK_S],
     [message |-> "WM_KEYUP", wParam |-> VK_S],
     [message |-> "WM_QUIT", wParam |-> 0]}

\* parse_shortcut: fewer than two parts is an error
parse_shortcut(shortcut) ==
    IF Len(shortcut) < 2
    THEN [ok |-> FALSE, modifiers |-> <<>>, key |-> ""]
    ELSE [ok |-> TRUE,
          modifiers |-> SubSeq(shortcut, 1, Len(shortcut) - 1),
          key |-> shortcut[Len(shortcut)]]

\* validate_shortcut, not on macOS
validate_shortcut(shortcut) ==
    LET p == parse_shortcut(shortcut)
    IN  /\ p.ok
        /\ \A i \in 1..Len(p.modifiers) :
              p.modifiers[i] \in {"Ctrl", "Control", "Alt", "Shift"}
        /\ p.modifiers # <<>>
        /\ p.key # ""

\* get_virtual_key_code, an Option as a sequence of at most one value: the
\* key in lower case is "s", "escape" or "esc", or it is not supported
get_virtual_key_code(key) ==
    IF key \in {"s", "S"} THEN <<VK_S>>
    ELSE IF key \in {"escape", "Escape", "esc", "Esc"} THEN <<VK_ESCAPE>>
    ELSE <<>>

\* is_registered
is_registered == hk_hotkey_id # <<>> /\ hk_shortcut # <<>>

\* current_shortcut
current_shortcut == hk_shortcut

\* a thread as start_message_loop spawns it
NewLoop(hotkey_id, callback) ==
    [pc |-> "get", hotkey_id |-> hotkey_id, callback |-> callback,
     msg |-> NoMsg]

(* register_hotkey(shortcut, callback); ok is what RegisterHotKey answers  *)
(* when the id is not registered yet.  The callback of the n-th thread is  *)
(* called n.                                                               *)
HkRegister(shortcut, ok) ==
    /\ Len(hk_loops) < MaxLoops
    /\ IF /\ parse_shortcut(shortcut).ok
          /\ validate_shortcut(shortcut)
          /\ get_virtual_key_code(parse_shortcut(shortcut).key) # <<>>
          /\ ok
          /\ 1 \notin hk_os
       THEN /\ hk_os' = hk_os \cup {1}
            /\ hk_loops' = Append(hk_loops, NewLoop(1, Len(hk_loops) + 1))
            /\ hk_hotkey_id' = <<1>>
            /\ hk_shortcut' = <<shortcut>>
            /\ hk_callback' = <<Len(hk_loops) + 1>>
            /\ hk_ret' = [op |-> "register_hotkey", result |-> "Ok"]
       ELSE /\ hk_ret' = [op |-> "register_hotkey", result |-> "Err"]
            /\ UNCHANGED <<hk_os, hk_loops, hk_hotkey_id, hk_shortcut,
                           hk_callback>>
    /\ UNCHANGED <<hk_is_key_down, hk_events, hk_gone>>
    /\ UNCHANGED <<dbVars, lkVars, appVars>>

(* unregister_hotkey: UnregisterHotKey for the id taken out of hotkey_id,  *)
(* is_key_down.store(false), registered_shortcut = None, callback = None.  *)
(* The threads are left running.                                           *)
HkUnregister ==
    /\ hk_os' = hk_os \ {hk_hotkey_id[i] : i \in 1..Len(hk_hotkey_id)}
    /\ hk_hotkey_id' = <<>>
    /\ hk_is_key_down' = FALSE
    /\ hk_shortcut' = <<>>
    /\ hk_callback' = <<>>
    /\ hk_gone' = hk_gone \cup {hk_callback[i] : i \in 1..Len(hk_callback)}
    /\ hk_ret' = [op |-> "unregister_hotkey", result |-> "Ok"]
    /\ UNCHANGED <<hk_loops, hk_events>>
    /\ UNCHANGED <<dbVars, lkVars, appVars>>

\* callback_clone(event) in thread l
Emit(l, event) ==
    /\ Len(hk_events) < MaxEvents
    /\ hk_events' = Append(hk_events,
                           [loop |-> l, event |-> event,
                            late |-> hk_loops[l].callback \in hk_gone])

\* thread l moves on in its loop
Goto(l, pc) == hk_loops' = [hk_loops EXCEPT ![l].pc = pc]

\* GetMessageW(&mut msg, ..) returns m; WM_QUIT ends the loop
HkGet(l, m) ==
    /\ hk_loops[l].pc = "get"
    /\ m.message = "WM_HOTKEY" => m.wParam \in hk_os
    /\ hk_loops' = [hk_loops EXCEPT
                       ![l].msg = m,
                       ![l].pc = IF m.message = "WM_QUIT" THEN "exited"
                                 ELSE "hotkey"]
    /\ UNCHANGED <<hk_shortcut, hk_callback, hk_hotkey_id, hk_is_key_down,
                   hk_os, hk_events, hk_gone, hk_ret>>
    /\ UNCHANGED <<dbVars, lkVars, appVars>>

\* if msg.message == WM_HOTKEY && msg.wParam.0 == hotkey_id as usize
\*     { if !is_key_down_clone.load(SeqCst) { .. } }
HkHotkeyLoad(l) ==
    /\ hk_loops[l].pc = "hotkey"
    /\ IF /\ hk_loops[l].msg.message = "WM_HOTKEY"
          /\ hk_loops[l].msg.wParam = hk_loops[l].hotkey_id
          /\ ~hk_is_key_down
       THEN Goto(l, "down")
       ELSE Goto(l, "esc")
    /\ UNCHANGED <<hk_shortcut, hk_callback, hk_hotkey_id, hk_is_key_down,
                   hk_os, hk_events, hk_gone, hk_ret>>
    /\ UNCHANGED <<dbVars, lkVars, appVars>>

\* is_key_down_clone.store(true, SeqCst); callback_clone(HotkeyDown)
HkHotkeyDown(l) ==
    /\ hk_loops[l].pc = "down"
    /\ hk_is_key_down' = TRUE
    /\ Emit(l, "HotkeyDown")
    /\ Goto(l, "esc")
    /\ UNCHANGED <<hk_shortcut, hk_callback, hk_hotkey_id, hk_os, hk_gone,
                   hk_ret>>
    /\ UNCHANGED <<dbVars, lkVars, appVars>>

\* if msg.message == WM_KEYDOWN { if vk_code == VK_ESCAPE.0 { .. } }
HkEsc(l) ==
    /\ hk_loops[l].pc = "esc"
    /\ IF /\ hk_loops[l].msg.message = "WM_KEYDOWN"
          /\ hk_loops[l].msg.wParam = VK_ESCAPE
       THEN Emit(l, "CancelPressed")
       ELSE UNCHANGED hk_events
    /\ Goto(l, "keyup")
    /\ UNCHANGED <<hk_shortcut, hk_callback, hk_hotkey_id, hk_is_key_down,
                   hk_os, hk_gone, hk_ret>>
    /\ UNCHANGED <<dbVars, lkVars, appVars>>

\* if msg.message == WM_KEYUP && is_key_down_clone.load(SeqCst)
HkKeyUpLoad(l) ==
    /\ hk_loops[l].pc = "keyup"
    /\ IF hk_loops[l].msg.message = "WM_KEYUP" /\ hk_is_key_down
       THEN Goto(l, "up")
       ELSE hk_loops' = [hk_loops EXCEPT ![l].pc = "get", ![l].msg = NoMsg]
    /\ UNCHANGED <<hk_shortcut, hk_callback, hk_hotkey_id, hk_is_key_down,
                   hk_os, hk_events, hk_gone, hk_ret>>
    /\ UNCHANGED <<dbVars, lkVars, appVars>>

\* is_key_down_clone.store(false, SeqCst); callback_clone(HotkeyUp)
HkHotkeyUp(l) ==
    /\ hk_loops[l].pc = "up"
    /\ hk_is_key_down' = FALSE
    /\ Emit(l, "HotkeyUp")
    /\ hk_loops' = [hk_loops EXCEPT ![l].pc = "get", ![l].msg = NoMsg]
    /\ UNCHANGED <<hk_shortcut, hk_callback, hk_hotkey_id, hk_os, hk_gone,
                   hk_ret>>
    /\ UNCHANGED <<dbVars, lkVars, appVars>>

\* WindowsKeyboardHookManager::new()
InitHotkey ==
    /\ AppAtRest
    /\ DbAtRest
    /\ LkAtRest
    /\ HkAtRest

NextHotkey ==
    \/ \E shortcut \in Shortcuts, ok \in BOOLEAN : HkRegister(shortcut, ok)
    \/ HkUnregister
    \/ \E l \in 1..Len(hk_loops), m \in Msgs : HkGet(l, m)
    \/ \E l \in 1..Len(hk_loops) : HkHotkeyLoad(l)
    \/ \E l \in 1..Len(hk_loops) : HkHotkeyDown(l)
    \/ \E l \in 1..Len(hk_loops) : HkEsc(l)
    \/ \E l \in 1..Len(hk_loops) : HkKeyUpLoad(l)
    \/ \E l \in 1..Len(hk_loops) : HkHotkeyUp(l)

SpecHotkey == InitHotkey /\ [][NextHotkey]_vars

----------------------------------------------------------------------------
(* The two buffers at work: the capture buffer between its callback and a  *)
(* control thread, or an AudioBuffer in the hands of its owner.            *)
NextBuffers ==
    \/ \E b \in Batch : ~ab_new /\ CbBegin(b)
    \/ CbLock
    \/ CbCheck
    \/ CbExtend
    \/ CbReturn
    \/ \E op \in ReadOps \cup ResetOps \cup LevelOps : ~ab_new /\ UiLock(op)
    \/ UiRead
    \/ UiLevel
    \/ UiReturn
    \/ UiClear
    \/ UiLockStartTime
    \/ UiSetStartTime
    \/ ~ab_new /\ UiPoll
    \/ UiPollReturn
    \/ ~ab_new /\ Tick
    \/ \E m \in 0..MaxSize : AbNew(m)
    \/ \E b \in Batch \cup {<<>>} : AbAppend(b)
    \/ AbClear
    \/ AbDuration

SpecBuffers == InitBuffers /\ [][NextBuffers]_vars

(* The application: the session controller, the clock and the callback of  *)
(* the stream it opens.                                                    *)
Next ==
    \/ Tick
    \/ \E b \in SessionBatch : CbBegin(b)
    \/ CbLock
    \/ CbCheck
    \/ CbExtend
    \/ CbReturn
    \/ \E c \in Callers, r \in Requests \cup Polls : CtlRequest(c, r)
    \/ \E c \in Callers : CtlLock(c)
    \/ \E c \in Callers : CtlStartCheck(c)
    \/ \E c \in Callers, d \in Devices, ok \in BOOLEAN, msg \in StartErrors :
          CtlStart(c, d, ok, msg)
    \/ \E c \in Callers, d \in Devices : CtlStartDone(c, d)
    \/ \E c \in Callers : CtlStopPause(c)
    \/ \E c \in Callers : CtlPoll(c)
    \/ \E c \in Callers : CtlStopSnapshot(c)
    \/ \E c \in Callers : CtlStopDone(c)
    \/ \E c \in Callers : CtlCancel(c)
    \/ \E text \in Texts : Complete(text)
    \/ \E msg \in TranscribeErrors : Fail(msg)

Spec == Init /\ [][Next]_vars

(* The same application with its threads scheduled.  The control thread    *)
(* named Poller keeps polling and gets the state lock when it asks again   *)
(* and again; a handler that has the lock runs to its end (dropping a      *)
(* stream stops its callbacks); a callback that has begun returns.         *)
Poller == "c2"

\* what a caller holding the state lock does next, the cancel apart
CtlStep(c) ==
    \/ CtlStartCheck(c)
    \/ \E d \in Devices, ok \in BOOLEAN, msg \in StartErrors :
          CtlStart(c, d, ok, msg)
    \/ \E d \in Devices : CtlStartDone(c, d)
    \/ CtlStopPause(c)
    \/ CtlPoll(c)
    \/ CtlStopSnapshot(c)
    \/ CtlStopDone(c)

\* what a callback that has begun does next
CbStep == CbLock \/ CbCheck \/ CbExtend \/ CbReturn

Fairness ==
    /\ SF_vars(CtlRequest(Poller, "poll"))
    /\ SF_vars(CtlLock(Poller))
    /\ \A c \in Callers : WF_vars(CtlStep(c)) /\ SF_vars(CtlCancel(c))
    /\ WF_vars(CbStep)

SpecLive == Init /\ [][Next]_vars /\ Fairness

----------------------------------------------------------------------------
(* Properties of the buffers, checked under SpecBuffers.                   *)

\* C1: in every reachable state, whatever the interleaving of the callback's
\* appends with reads, start_recording and clear, the stored samples number
\* at most the capacity (RING_BUFFER_CAPACITY, and max_size for AudioBuffer).
C1_LengthWithinCapacity ==
    /\ Len(samples) <= RING_BUFFER_CAPACITY
    /\ ab_new => Len(ab_samples) <= ab_max_size

\* the buffer is full, a reader holds the lock and the callback waits with a batch
C1_Witness ==
    /\ Len(samples) = RING_BUFFER_CAPACITY
    /\ ui_pc = "got"
    /\ cb_pc = "call"

\* C2: an append that would take the length over the capacity returns an
\* error and leaves the buffer exactly as it was, no prefix of the batch stored.
C2_RejectedAppendChangesNothing ==
    [][ /\ \A b \in Batch \cup {<<>>} :
             (AbAppend(b) /\ Len(ab_samples) + Len(b) > ab_max_size)
                 => (ab_result' = "Err" /\ ab_samples' = ab_samples)
        /\ (cb_pc = "check" /\ cb_pc' # "check"
              /\ Len(samples) + Len(cb_batch) > RING_BUFFER_CAPACITY)
                 => (cb_result' = "Err" /\ samples' = samples /\ samples' = cb_pre)
      ]_vars

\* a batch was refused although part of it would have fitted
C2_Witness ==
    /\ ab_result = "Err"
    /\ ab_samples # <<>>
    /\ Len(ab_samples) < ab_max_size
    /\ ab_samples = ab_pre

\* C3: as long as the total length offered to an empty buffer is at most the
\* capacity (the capacity itself included), no append has failed and the
\* count is the sum of the lengths offered.
C3_AppendsWithinCapacitySucceed ==
    /\ (ab_new /\ ab_attempted <= ab_max_size)
          => (~ab_rejected /\ Len(ab_samples) = ab_attempted)
    /\ (cb_pc \in {"idle", "call"} /\ attempted <= RING_BUFFER_CAPACITY)
          => (~rejected /\ len(samples) = attempted)

\* several batches have filled the buffer exactly
C3_Witness ==
    /\ attempted = RING_BUFFER_CAPACITY
    /\ len(samples) = RING_BUFFER_CAPACITY
    /\ cb_pc = "idle"
    /\ cb_result = "Ok"
    /\ ~rejected

\* C4: get_samples returns exactly the accepted batches since the last
\* start_recording/clear, concatenated in call order; a refused batch adds
\* nothing, and nothing is reordered, duplicated or lost.
C4_SnapshotIsAcceptedBatches ==
    (ui_pc = "got" /\ ui_op = "get_samples") => ui_ret = accepted

\* a snapshot of two different samples, taken after a batch was refused
C4_Witness ==
    /\ ui_pc = "got"
    /\ ui_op = "get_samples"
    /\ rejected
    /\ Len(ui_ret) >= 2
    /\ ui_ret[1] # ui_ret[2]

\* C5: a reader never sees part of a batch: while it holds what it read, no
\* append is under way, and the value is the one of the buffer made of the
\* completed batches.
C5_NoTornRead ==
    ui_pc = "got" =>
        /\ cb_pc \notin {"check", "extend"}
        /\ ui_ret = CASE ui_op = "get_samples" -> accepted
                      [] ui_op = "len" -> Len(accepted)
                      [] ui_op = "is_empty" -> (accepted = <<>>)
                      [] ui_op = "duration_seconds" ->
                             <<Len(accepted), DICTATION_SAMPLE_RATE>>

\* a reader holds a count while the callback waits for the lock with a batch
C5_Witness ==
    /\ ui_pc = "got"
    /\ ui_op = "len"
    /\ ui_ret > 0
    /\ cb_pc = "call"

----------------------------------------------------------------------------
(* Properties of the session, checked under Spec.                          *)

\* C6: can_start_recording is true exactly in Idle and Error, false in
\* Recording and Processing, and false of what start_recording builds.
C6_CanStartExactlyIdleOrError ==
    /\ state.tag \in Tags
    /\ can_start_recording(state) <=> state.tag \in {"Idle", "Error"}
    /\ \A d \in Devices : ~can_start_recording(start_recording(d))

\* a recording has begun and another start request is at the check
C6_Witness ==
    /\ state.tag = "Recording"
    /\ \E c \in Callers : ctl_pc[c] = "locked" /\ ctl_req[c] = "start"

C8_ConcurrentStartsOneWins ==
    [][ /\ \A c \in Callers :
             (ctl_pc[c] \in {"locked", "starting", "started", "stopping",
                            "stopped"})
                 => (state_lock = c /\ ctl_pc[Other(c)] \in {"idle", "wait"})
        /\ \A c \in Callers :
             (/\ ctl_req[c] = "start"
              /\ ctl_pc[c] \in {"locked", "starting"}
              /\ ctl_pc'[c] = "idle"
              /\ state.tag \in {"Recording", "Processing"})
                 => UNCHANGED <<state, stream, samples, start_time>>
      ]_vars

\* a caller that asked to start in Idle holds the lock and finds Recording
C8_Witness ==
    \E c \in Callers :
        /\ ctl_pc[c] = "locked"
        /\ ctl_req[c] = "start"
        /\ ctl_saw[c]
        /\ state.tag = "Recording"

\* C9: after a reset, from whichever variant, the state is Idle and
\* can_start_recording is true.
C9_ResetYieldsIdle ==
    last_reset_from # None => (state.tag = "Idle" /\ can_start_recording(state))

\* a reset has replaced a Processing state
C9_Witness ==
    /\ last_reset_from = "Processing"
    /\ state.tag = "Idle"

\* C10: from the cancelling of a recording to the next start the state is
\* Idle, never Processing; no snapshot is taken or held, and neither the
\* transcription engine nor the history is called.
C10_CancelLeaksNothing ==
    cancelled =>
        /\ state.tag = "Idle"
        /\ out = None
        /\ stream = "none"
        /\ \A c \in Callers :
              ctl_pc[c] \notin {"stopping", "stopped"} /\ ctl_snap[c] = <<>>

\* a recording was cancelled and a stop request arrives after it
C10_Witness ==
    /\ cancelled
    /\ last_reset_from = "Recording"
    /\ \E c \in Callers : ctl_pc[c] = "locked" /\ ctl_req[c] = "stop"

C12_ErrorOnlyToIdle ==
    [][ (state.tag = "Error" /\ state'.tag # "Error") => state'.tag = "Idle"
      ]_vars

\* C12, amended: from the Error state the session moves next to Idle (a
\* reset) or to Recording (a new start, which can_start_recording allows in
\* Error); it never moves from Error to Processing.
C12_ErrorToIdleOrRecording ==
    [][ (state.tag = "Error" /\ state'.tag # "Error")
            => state'.tag \in {"Idle", "Recording"}
      ]_vars

\* in Error, a start request has passed the can_start_recording test
C12_Witness ==
    /\ state.tag = "Error"
    /\ \E c \in Callers : ctl_pc[c] = "starting" /\ ctl_req[c] = "start"

C14_DelegatesToBuffer ==
    /\ state.tag # "Recording" => ~has_exceeded_max_duration(state)
    /\ state.tag = "Recording" =>
          (has_exceeded_max_duration(state)
              <=> buffer_has_exceeded_max_duration(start_time))

\* C14, amended: the session's has_exceeded_max_duration is false in Idle,
\* Processing and Error; in Recording it is true exactly when at least
\* MAX_RECORDING_DURATION_SECS have elapsed since the Recording state's own
\* start_time, whatever the buffer's start time is.
C14_OwnStartTime ==
    /\ state.tag # "Recording" => ~has_exceeded_max_duration(state)
    /\ state.tag = "Recording" =>
          (has_exceeded_max_duration(state)
              <=> now - state.start_time >= MAX_RECORDING_DURATION_SECS)

\* a recording past its limit whose buffer was started at another time
C14_Witness ==
    /\ state.tag = "Recording"
    /\ now - state.start_time = MAX_RECORDING_DURATION_SECS
    /\ has_exceeded_max_duration(state)
    /\ stream = "playing"
    /\ start_time # Some(state.start_time)

\* C15: the buffer's has_exceeded_max_duration is true exactly when at
\* least MAX_RECORDING_DURATION_SECS have elapsed since the last
\* start_recording, whatever the number of samples; it is false of a buffer
\* never started or cleared since.
C15_BufferLimitByClock ==
    [][ /\ (ui_pc = "idle" /\ ui_pc' = "polled")
              => (ui_ret' = (/\ start_time # NoInstant
                             /\ now - start_time[1]
                                   >= MAX_RECORDING_DURATION_SECS))
        /\ start_time = NoInstant
              => ~buffer_has_exceeded_max_duration(start_time)
        /\ (ui_pc = "st_locked" /\ ui_pc' = "idle")
              => (start_time' = IF ui_op = "start_recording"
                                 THEN <<now>> ELSE <<>>)
      ]_vars

\* the limit is reported of a started buffer that holds no sample
C15_Witness ==
    /\ ui_pc = "polled"
    /\ ui_ret = TRUE
    /\ samples = <<>>
    /\ start_time = Some(1)
    /\ now = 1 + MAX_RECORDING_DURATION_SECS

C17_OverflowDroppedInCallback ==
    [][ (cb_pc = "check" /\ cb_pc' # "check"
           /\ Len(samples) + Len(cb_batch) > RING_BUFFER_CAPACITY)
        => /\ samples' = samples
           /\ cb_pc' = "idle"
           /\ samples_lock' = None
           /\ stream' = stream
           /\ stream = "playing" => (ENABLED CbBegin(<<100>>))'
      ]_vars

\* after a batch was dropped, a later batch has been appended
C17_Witness ==
    /\ rejected
    /\ cb_pc = "idle"
    /\ cb_result = "Ok"
    /\ Len(samples) = RING_BUFFER_CAPACITY
    /\ stream = "playing"

----------------------------------------------------------------------------
(* Properties of the callback's conversion, checked under SpecResample.    *)

\* C18: when the source rate is k times 16000 (k = 3 for 48000 Hz), N
\* frames emit floor(N / k) samples, the j-th being the downmixed value of
\* frame j * k; frames whose channels all carry v are downmixed to v, so
\* such a stream emits only v.
C18_IntegerRateDecimation ==
    /\ rs_rate % 16000 = 0 =>
          LET k == rs_rate \div 16000
          IN  /\ Len(rs_out) = rs_fed \div k
              /\ \A j \in 1..Len(rs_out) : rs_out[j] = rs_in[j * k]
    /\ \A v \in Sample, n \in Channels : Downmix([i \in 1..n |-> v]) = v
    /\ Len(rs_in) = rs_fed

\* 48000 Hz, 2 channels: six frames, all of value 200 but the third, have
\* emitted the third and the sixth
C18_Witness ==
    /\ rs_rate = 48000
    /\ rs_channels = 2
    /\ rs_fed = 6
    /\ rs_in = <<200, 200, 100, 200, 200, 200>>
    /\ rs_out = <<100, 200>>

\* C19, as stated: for every source rate, below 16000 and not a multiple of
\* it included, N source frames have emitted floor(N * 16000 / sourceRate)
\* samples.
C19_FixedTargetRate ==
    Len(rs_out) = (rs_fed * 16000) \div rs_rate

(***************************************************************************)
(* Properties of the level meter, checked under SpecLevel                  *)
(***************************************************************************)

\* C20. calculate_rms_level returns exactly 0.0 when the buffer is empty or
\* the window size is 0, and for every non-empty window of i16 samples, the
\* ones holding -32768 included, a level in [0.0, 1.0].
C20_LevelInUnitInterval ==
    lv_op # None =>
        /\ (lv_samples = <<>> \/ lv_window = 0) => lv_ret = LevelZero
        /\ LevelInUnit(lv_ret)

\* a window that holds -32768, whose level is clamped to 1.0
C20_Witness ==
    /\ lv_op # None
    /\ lv_window > 0
    /\ lv_samples # <<>>
    /\ lv_samples[Len(lv_samples)] = I16_MIN
    /\ lv_ret = LevelOne

\* C21: the level depends only on the last min(window size, sample count)
\* samples: a buffer whose tail of that length is the tail of the buffer
\* asked gives the same level, whatever precedes the tail; the window of
\* AudioCaptureBuffer is RMS_WINDOW_SIZE.
C21_LevelDependsOnTailOnly ==
    lv_op # None =>
        /\ \A other \in LevelBuffers :
              LastN(other, Min(lv_window, Len(other)))
                    = LastN(lv_samples, Min(lv_window, Len(lv_samples)))
                 => calculate_rms_level(other, lv_window) = lv_ret
        /\ lv_op = "AudioCaptureBuffer" => lv_window = RMS_WINDOW_SIZE

\* a level taken of the last sample alone, with louder samples before it
C21_Witness ==
    /\ lv_op = "AudioBuffer"
    /\ lv_window = 1
    /\ lv_samples = <<I16_MAX, I16_MIN, 1000>>
    /\ lv_ret = [sum |-> Wide(30, 16960), len |-> 1]

----------------------------------------------------------------------------
(* Properties of the level meter on the shared buffer, checked under       *)
(* SpecBuffers.                                                            *)

\* C22: computing the level is a pure read: from the taking of the lock to
\* the return it leaves the samples, their count and the start time as they
\* were and replaces no session state; it returns the level of the completed
\* batches, and a get_samples made after it, with appends going on around
\* it, still returns the accepted batches.
C22_LevelIsPureRead ==
    [][ /\ (ui_op \in LevelOps \/ ui_op' \in LevelOps)
              => UNCHANGED <<samples, start_time, state, stream, histVars>>
        /\ (ui_pc = "locked" /\ ui_pc' = "measured")
              => /\ ui_ret' = calculate_rms_level(accepted, RMS_WINDOW_SIZE)
                 /\ Len(samples') = Len(samples)
        /\ (ui_pc' = "got" /\ ui_op' = "get_samples") => ui_ret' = accepted
      ]_vars

\* a level taken between two batches: one is stored, the next waits for the lock
C22_Witness ==
    /\ ui_pc = "measured"
    /\ ui_op = "calculate_rms_level"
    /\ samples = <<100, 200>>
    /\ ui_ret = [sum |-> Wide(1, 17232), len |-> 2]
    /\ cb_pc = "call"

\* C23: duration_seconds is the stored sample count over 16000, on both
\* buffers: 16000 samples give exactly 1.0 and an empty buffer 0; the clock
\* and the start time have no part in it.
C23_DurationIsCountOverRate ==
    [][ /\ (ui_pc = "locked" /\ ui_pc' = "got" /\ ui_op = "duration_seconds")
              => ui_ret' = <<Len(samples), 16000>>
        /\ ab_ret' # ab_ret => ab_ret' = <<Len(ab_samples), 16000>>
        /\ IsSeconds(duration_seconds(OneSecond), 1)
        /\ IsSeconds(duration_seconds(<<>>), 0)
      ]_vars

\* two samples read as 2/16000 s of a buffer started two seconds ago
C23_Witness ==
    /\ ui_pc = "got"
    /\ ui_op = "duration_seconds"
    /\ ui_ret = <<2, 16000>>
    /\ start_time = Some(0)
    /\ now = 2

\* C24: the buffer's start time is written by start_recording, which sets it
\* to the present instant, and by clear, which unsets it, and by nothing
\* else: no append, get_samples, len, is_empty, level, duration or limit
\* query changes it; a buffer without a start time has recorded for zero
\* seconds.
C24_StartTimeSetOnce ==
    [][ /\ start_time' # start_time
              => (ui_pc = "st_locked" /\ ui_op \in ResetOps /\ ui_pc' = "idle")
        /\ (ui_pc = "st_locked" /\ ui_pc' = "idle")
              => start_time' = IF ui_op = "start_recording"
                               THEN <<now>> ELSE <<>>
        /\ (cb_pc' # cb_pc \/ samples' # samples
              \/ ui_op \in ReadOps \cup LevelOps \cup {"has_exceeded_max_duration"})
              => start_time' = start_time
        /\ start_time = <<>> => buffer_recording_duration(start_time) = 0
      ]_vars

\* a cleared buffer asked for its limit two seconds on
C24_Witness ==
    /\ start_time = NoInstant
    /\ now = 2
    /\ ui_pc = "polled"
    /\ ui_ret = FALSE
    /\ buffer_recording_duration(start_time) = 0

----------------------------------------------------------------------------
(* Further properties of the session, checked under Spec.                  *)

\* C25, as stated: while the session is in Recording, the samples the
\* callback has appended to the buffer are the content of the Recording
\* state's audio_buffer.
C25_HandleIsLiveBuffer ==
    (state.tag = "Recording" /\ cb_pc \in {"idle", "call"})
        => state.audio_buffer = samples

\* C26: the vector get_samples returned and the samples of a Processing
\* state are copies: an append made to the buffer afterwards, and the
\* emptying of the buffer, leave them as they were.
C26_SnapshotImmutable ==
    [][ /\ \A c \in Callers :
             (ctl_pc[c] = "stopped" /\ ctl_pc'[c] = "stopped")
                 => ctl_snap'[c] = ctl_snap[c]
        /\ (state.tag = "Processing" /\ state'.tag = "Processing")
              => state'.audio_data = state.audio_data
        /\ \A c \in Callers :
             (ctl_pc[c] = "stopped" /\ ctl_pc'[c] = "idle")
                 => (state'.audio_data = ctl_snap[c] /\ samples' = <<>>)
      ]_vars

\* the buffer has received a sample since the copy in hand was taken
C26_Witness ==
    \E c \in Callers :
        /\ ctl_pc[c] = "stopped"
        /\ ctl_snap[c] = <<100>>
        /\ samples = <<100, 100>>
        /\ cb_pc = "extend"

\* C27, as stated: the stream is paused before the buffer is read, so the
\* copy returned holds every sample the callback appended: from the taking
\* of the copy on, the buffer of that stream receives nothing more.
C27_NoAppendAfterSnapshot ==
    \A c \in Callers :
        ctl_pc[c] = "stopped" => (stream = "paused" /\ ctl_snap[c] = samples)

----------------------------------------------------------------------------
(* Properties of AudioCaptureStream::start, checked under SpecStart.       *)

\* C28: when there is no input device, the device id is no number or names
\* no device, the device has no default config, or its sample format is not
\* I16, I32 or F32, start returns an error and at no moment of the call is a
\* stream built or played: no callback runs and nothing is appended.
C28_FailedStartNeverRecords ==
    (\/ device_lookup(st_device_id, st_host) # "Ok"
     \/ ~st_host.config
     \/ st_host.format \notin SupportedFormats)
    => /\ stream = "none"
       /\ cb_pc = "idle" /\ cb_result = None
       /\ attempted = 0 /\ accepted = <<>> /\ samples = <<>>
       /\ st_pc \notin {"play"}
       /\ st_pc = "done" =>
             /\ st_ret \in {"Failed to parse device ID",
                            "Failed to enumerate devices",
                            "Failed to get device by ID",
                            "No default input device",
                            "Failed to get default input config",
                            "Unsupported sample format"}
             /\ start_time = NoInstant

\* start has failed on a device whose samples are unsigned bytes, on a host
\* where a stream could have been built and played
C28_Witness ==
    /\ st_pc = "done"
    /\ st_ret = "Unsupported sample format"
    /\ st_host.format = "U8"
    /\ st_host.build /\ st_host.play
    /\ st_device_id = "0"

\* C29: the session is always exactly one of Idle, Recording, Processing,
\* Error, carrying that variant's fields and no others; exactly one of
\* can_start_recording, is_recording, is_processing holds of it; and a step
\* that changes the state puts a whole new value built by idle,
\* start_recording, start_processing or error in its place.
C29_ExactlyOneVariant ==
    [][ /\ state.tag \in Tags
        /\ DOMAIN state = VariantFields(state.tag)
        /\ (IF can_start_recording(state) THEN 1 ELSE 0)
             + (IF is_recording(state) THEN 1 ELSE 0)
             + (IF is_processing(state) THEN 1 ELSE 0) = 1
        /\ state' # state =>
             \/ state' = [tag |-> "Idle"]
             \/ \E d \in Devices :
                   state' = [tag |-> "Recording", start_time |-> now,
                             audio_buffer |-> <<>>,
                             microphone_device_id |-> d]
             \/ \E c \in Callers :
                   state' = [tag |-> "Processing", audio_data |-> ctl_snap[c],
                             duration_seconds |-> <<Len(ctl_snap[c]), 16000>>]
             \/ \E m \in Messages : state' = [tag |-> "Error", message |-> m]
      ]_vars

\* a failed start has put Error in the place of Idle or Error, at the end
\* of the clock; of the three predicates only can_start_recording holds
C29_Witness ==
    /\ state = [tag |-> "Error", message |-> "No default input device"]
    /\ can_start_recording(state)
    /\ ~is_recording(state) /\ ~is_processing(state)
    /\ \E c \in Callers : ctl_req[c] = "cancel" /\ ctl_pc[c] = "wait"
    /\ now = MaxTime

----------------------------------------------------------------------------
(* Properties of transcribe_dictation, checked under SpecTranscribe.       *)

\* C30: transcribing no samples returns Ok with the empty string, not an
\* error, and makes no call to the transcription engine, whatever the
\* engine would have answered.
C30_EmptyAudioEmptyText ==
    (tr_ret.result # None /\ tr_audio = <<>>)
        => /\ tr_ret.result = "Ok"
           /\ tr_ret.text = <<>>
           /\ tr_ret.calls = <<>>

\* no audio was given to an engine that cannot even create its state
C30_Witness ==
    /\ tr_audio = <<>>
    /\ ~tr_engine.create_state
    /\ tr_engine.segments # <<>>
    /\ tr_ret = TrOk(<<>>, <<>>)

----------------------------------------------------------------------------
(* Properties of the dictation history, checked under SpecHistory.         *)

\* a is more than the given number of days before b
MoreThanDaysBefore(a, b, days) == Earlier(<<a[1] + days, a[2]>>, b)

\* C31: cleanup_old_entries deletes exactly the rows written more than 30
\* days before now, returns how many it deleted, and leaves every other
\* row as it was.
C31_CleanupDeletesExactlyTheOld ==
    [][(db_ret'.op = "cleanup" /\ db_now' = db_now /\ db_next_id' = db_next_id)
          => /\ db_rows' = {r \in db_rows :
                              ~MoreThanDaysBefore(r.at, db_now, RETENTION_DAYS)}
             /\ db_ret'.value = Cardinality(db_rows) - Cardinality(db_rows')]_vars

\* a cleanup has deleted a row written a microsecond more than 30 days ago
\* and kept the row written exactly 30 days ago
C31_Witness ==
    /\ db_ret = [op |-> "cleanup", value |-> 1]
    /\ db_now = <<HistStart + RETENTION_DAYS, 1000>>
    /\ db_rows = {Row(2, <<HistStart, 1000>>, "hello")}

----------------------------------------------------------------------------
(* Further properties of the conversion, checked under SpecResample.       *)

\* the frames fed so far, each as one channel carrying its mixed value
FedAsOneBlock == [i \in 1..Len(rs_in) |-> <<rs_in[i]>>]

\* C32: the accumulator lives on between the calls of the callback: however
\* the frames fed were divided into calls, the samples emitted are those
\* one call with all the frames emits.
C32_BlocksDoNotMatter ==
    rs_out = RsLoop([acc |-> 0, out |-> <<>>], FedAsOneBlock,
                    resample_ratio(rs_rate)).out

\* at 48000 Hz six frames came in calls of two, one and three frames; the
\* third frame, alone in its call, and the sixth were emitted
C32_Witness ==
    /\ rs_rate = 48000
    /\ rs_blocks = <<2, 1, 3>>
    /\ rs_in = <<200, 200, 100, 200, 200, 200>>
    /\ rs_out = <<100, 200>>

\* C38: for a source rate of 16000 or more the accumulator is, after every
\* call of the callback, at least 0 and below the ratio, and the call has
\* emitted at most one sample for each frame it was given.
C38_AccumulatorBelowRatio ==
    [][rs_rate >= DICTATION_SAMPLE_RATE
          => /\ 0 <= rs_acc'
             /\ rs_acc' < resample_ratio(rs_rate)
             /\ Len(rs_out') - Len(rs_out) <= rs_fed' - rs_fed]_vars

\* 44100 Hz: six frames have emitted two samples and left a fraction
C38_Witness ==
    /\ rs_rate = 44100
    /\ rs_fed = 6
    /\ Len(rs_out) = 2
    /\ 0 < rs_acc /\ rs_acc < F32One

----------------------------------------------------------------------------
(* Further properties of the capture buffer, checked under SpecBuffers.    *)

\* C33: start_recording empties the buffer whatever it held and, as it
\* returns, the buffer is still empty and the start time is the clock's; a
\* snapshot holds the batches accepted since then and nothing older.
C33_SessionStartsEmpty ==
    [][ /\ (ui_pc = "locked" /\ ui_op = "start_recording" /\ ui_pc' = "cleared")
            => samples' = <<>>
        /\ (ui_pc = "st_locked" /\ ui_op = "start_recording" /\ ui_pc' = "idle")
            => /\ samples = <<>>
               /\ samples' = <<>>
               /\ start_time' = Some(now)
        /\ (ui_pc = "locked" /\ ui_op = "get_samples" /\ ui_pc' = "got")
            => ui_ret' = accepted
      ]_vars

\* a batch had been appended; start_recording, called later than the first
\* start, has emptied the buffer and is about to set the start time
C33_Witness ==
    /\ cb_result = "Ok"
    /\ cb_pc = "idle"
    /\ ui_pc = "st_locked"
    /\ ui_op = "start_recording"
    /\ samples = <<>>
    /\ start_time = Some(0)
    /\ now = MaxTime

\* C34: a buffer operation takes the samples lock once, as it begins, and
\* has given it back when it returns; the callback holds it neither while
\* it prepares its batch nor when it has the Err that it logs.
C34_LockOnlyInsideOperation ==
    [][ /\ (samples_lock' = "cb" /\ samples_lock # "cb")
            => (cb_pc = "call" /\ cb_pc' = "check")
        /\ (samples_lock' = "ui" /\ samples_lock # "ui")
            => (ui_pc = "idle" /\ ui_pc' = "locked")
        /\ cb_pc' \in {"idle", "call"} => samples_lock' # "cb"
        /\ ui_pc' \in {"idle", "polled"} => samples_lock' # "ui"
        /\ (cb_result' = "Err" /\ cb_result # "Err") => samples_lock' # "cb"
      ]_vars

\* the callback has its Err to log while a reader already holds the lock
C34_Witness ==
    /\ cb_result = "Err"
    /\ cb_pc = "idle"
    /\ samples_lock = "ui"
    /\ ui_pc = "got"
    /\ ui_op = "get_samples"

----------------------------------------------------------------------------
(* The locks of the capture buffer, checked under SpecLocks.               *)

\* thread t is in a method and waits for a Mutex another thread holds
Blocked(t) ==
    /\ lk_pc[t].op # None
    /\ lk_pc[t].held < Len(LockOrder(lk_pc[t].op))
    /\ lk_owner[NextLock(t)] # None

\* C35: the threads never wait for one another in a circle: whenever one
\* waits, a thread that is in a method can go on; and no thread holds
\* start_time while it has samples still to lock.
C35_NoDeadlock ==
    /\ (\E t \in Threads : Blocked(t))
          => \E u \in Threads : lk_pc[u].op # None /\ ~Blocked(u)
    /\ \A t \in Threads :
          (lk_owner["start_time"] = t /\ lk_pc[t].held < Len(LockOrder(lk_pc[t].op)))
              => NextLock(t) # "samples"

\* start_recording holds samples and waits for start_time, which a thread
\* in recording_duration holds, while the callback waits for samples
C35_Witness ==
    /\ lk_pc["ui1"] = [op |-> "start_recording", held |-> 1]
    /\ lk_pc["ui2"] = [op |-> "recording_duration", held |-> 1]
    /\ lk_pc["cb"] = [op |-> "append_samples", held |-> 0]
    /\ lk_owner = [l \in Locks |-> IF l = "samples" THEN "ui1" ELSE "ui2"]

----------------------------------------------------------------------------
(* A further property of the session, checked under Spec.                  *)

(* The duration d = <<count, rate>> of a buffer of the model, taken in the *)
(* program's measure: the model's capacity stands for the program's, so a  *)
(* count stands for count / RING_BUFFER_CAPACITY of 4,800,000 samples.     *)
(* True when that many samples last at most 300 seconds.                   *)
WithinMaxDuration(d) ==
    d[1] * SOURCE_RING_BUFFER_CAPACITY
        <= RING_BUFFER_CAPACITY * d[2] * SOURCE_MAX_RECORDING_DURATION_SECS

\* C36: the capacity is 16000 * 300 = 4,800,000 samples, the value of
\* MAX_AUDIO_BUFFER_SIZE too, so duration_seconds of the capture buffer is
\* never more than 300 seconds, nor is the duration a Processing state
\* carries, which is that of the samples it carries.
C36_DurationWithinLimit ==
    /\ SOURCE_RING_BUFFER_CAPACITY
          = DICTATION_SAMPLE_RATE * SOURCE_MAX_RECORDING_DURATION_SECS
    /\ MAX_AUDIO_BUFFER_SIZE = SOURCE_RING_BUFFER_CAPACITY
    /\ WithinMaxDuration(duration_seconds(samples))
    /\ state.tag = "Processing"
          => /\ state.duration_seconds = duration_seconds(state.audio_data)
             /\ WithinMaxDuration(state.duration_seconds)

\* a recording that filled the buffer is being transcribed
C36_Witness ==
    /\ state.tag = "Processing"
    /\ Len(state.audio_data) = RING_BUFFER_CAPACITY
    /\ out = "transcribe"

----------------------------------------------------------------------------
(* Further properties of the two buffers, checked under SpecBuffers.       *)

\* C37: a batch is accepted exactly when the length and the batch's length
\* together are within the capacity, whatever was refused before; an
\* accepted batch is appended whole, and what the capture buffer holds
\* between appends is the accepted batches in their order.
C37_AcceptanceDependsOnLengthsOnly ==
    [][ /\ \A b \in Batch \cup {<<>>} :
             AbAppend(b)
                 => /\ ab_result' = "Ok"
                          <=> Len(ab_samples) + Len(b) <= ab_max_size
                    /\ ab_result' = "Ok" => ab_samples' = ab_samples \o b
        /\ (cb_pc = "check" /\ cb_pc' # "check")
              => (cb_pc' = "extend"
                     <=> Len(samples) + Len(cb_batch) <= RING_BUFFER_CAPACITY)
        /\ (cb_pc = "extend" /\ cb_pc' = "idle")
              => (cb_result' = "Ok" /\ samples' = cb_pre \o cb_batch)
        /\ cb_pc' \in {"idle", "call"} => samples' = accepted'
      ]_vars

\* a batch of two was refused by an AudioBuffer of three that held two;
\* the batch of one offered next was appended
C37_Witness ==
    /\ ab_new
    /\ ab_max_size = 3
    /\ ab_rejected
    /\ ab_result = "Ok"
    /\ ab_pre = <<100, 200>>
    /\ ab_samples = <<100, 200, 100>>
    /\ ab_attempted = 4

----------------------------------------------------------------------------
(* Properties of the Windows hotkey, examined under SpecHotkey.            *)

\* the HotkeyDown and HotkeyUp events thread l has emitted, in order
KeyEvents(l) ==
    SelectSeq(hk_events,
              LAMBDA e : e.loop = l /\ e.event # "CancelPressed")

\* C39, as stated: the HotkeyDown and HotkeyUp events a message loop emits
\* alternate, the first being a HotkeyDown.
C39_DownUpAlternate ==
    \A l \in 1..Len(hk_loops) :
        \A i \in 1..Len(KeyEvents(l)) :
            KeyEvents(l)[i].event =
                IF i % 2 = 1 THEN "HotkeyDown" ELSE "HotkeyUp"

\* C40, as stated: once unregister_hotkey has returned, is_registered() is
\* false and current_shortcut() is None, and no callback that was
\* unregistered is called again.
C40_UnregisterSilences ==
    /\ hk_ret.op = "unregister_hotkey"
          => (~is_registered /\ current_shortcut = <<>>)
    /\ \A i \in 1..Len(hk_events) : ~hk_events[i].late
====
